---------------------------- MODULE Spec2Model ----------------------------
(***************************************************************************)
(* State-machine model of the Eisenhower task board (src/unnamed/part_002, *)
(* the Drive-backed App component): the task store and its ordering        *)
(* operations, the per-identity local slot, and the cloud sync reconciler  *)
(* (initialization, debounced push, token acquisition).                    *)
(*                                                                         *)
(* React specifics the model relies on:                                    *)
(*  - every setTasks call produces a new array, so the persist effect      *)
(*    (154-158) and the debounced push effect (476-495) re-run after it;   *)
(*    they are part of the action that changes the store;                  *)
(*  - a change of accessToken/tokenExpiry re-creates ensureAccessToken and *)
(*    pushTasksToCloud, so the initialization effect (405-474) and the     *)
(*    push effect re-run after a token grant;                              *)
(*  - completions of awaited calls are separate actions.                   *)
(***************************************************************************)
EXTENDS Integers, Sequences, FiniteSets, TLC

\* ------------------------------------------------------------------ bounds
MaxTasks == 3        \* ids generateId hands out in one run
MaxSyncTasks == 1    \* ids handed out in a run with the cloud attached
MaxClock == 2        \* largest value of Date.now() the model reaches
MaxProcs == 2        \* asynchronous calls in flight at once
MaxSignIns == 1      \* sign-ins after the restored session

\* --------------------------------------------------------------- constants
Quadrants == {"UI", "NI", "UN", "NN"}
VALID_QUADRANTS == Quadrants
Identities == {"a", "b"}
NoUser == ""
None == "none"

\* a.localeCompare(b) < 0 on the four quadrant ids: NI < NN < UI < UN
QuadRank(q) == CASE q = "NI" -> 0 [] q = "NN" -> 1 [] q = "UI" -> 2 [] q = "UN" -> 3
                 [] OTHER -> 4

\* Titles are sequences of characters; " " is the whitespace character.
Titles == {<< >>, <<" ">>, <<"a">>}

RECURSIVE TrimLeft(_)
TrimLeft(s) == IF s = << >> THEN s
               ELSE IF Head(s) = " " THEN TrimLeft(Tail(s)) ELSE s

RECURSIVE TrimRight(_)
TrimRight(s) == IF s = << >> THEN s
                ELSE IF s[Len(s)] = " " THEN TrimRight(SubSeq(s, 1, Len(s) - 1)) ELSE s

Trim(s) == TrimRight(TrimLeft(s))

\* ----------------------------------------------------------- array helpers
\* Array.prototype.findIndex on ids: 0-based, -1 when absent
FindIndexById(arr, id) ==
  IF \E i \in 1..Len(arr) : arr[i].id = id
  THEN (CHOOSE i \in 1..Len(arr) :
          arr[i].id = id /\ \A j \in 1..(i - 1) : arr[j].id # id) - 1
  ELSE -1

HasId(arr, id) == \E i \in 1..Len(arr) : arr[i].id = id

RemoveAt(arr, i0) == SubSeq(arr, 1, i0) \o SubSeq(arr, i0 + 2, Len(arr))

Min(a, b) == IF a < b THEN a ELSE b
Max(a, b) == IF a > b THEN a ELSE b

\* Array.prototype.splice(i0, 0, x): a start beyond the end inserts at the end
InsertAt(arr, i0, x) ==
  LET p == Max(0, Min(i0, Len(arr)))
  IN SubSeq(arr, 1, p) \o <<x>> \o SubSeq(arr, p + 1, Len(arr))

\* (a, b) => a.order - b.order, as "a sorts strictly before b"
OrderLess(x, y) == x.order < y.order

\* the comparator of toSignature and sortedTasks: quadrant, then order, then id
CanonicalLess(x, y) ==
  IF x.quadrant # y.quadrant THEN QuadRank(x.quadrant) < QuadRank(y.quadrant)
  ELSE IF x.order # y.order THEN x.order < y.order
  ELSE x.id < y.id

\* Array.prototype.sort is stable: an element is inserted behind every element
\* that does not compare greater.
RECURSIVE InsertByOrder(_, _)
InsertByOrder(sorted, x) ==
  IF sorted = << >> THEN <<x>>
  ELSE IF OrderLess(x, Head(sorted)) THEN <<x>> \o sorted
       ELSE <<Head(sorted)>> \o InsertByOrder(Tail(sorted), x)

\* .sort((a, b) => a.order - b.order)
RECURSIVE SortByOrder(_)
SortByOrder(arr) ==
  IF arr = << >> THEN << >>
  ELSE InsertByOrder(SortByOrder(SubSeq(arr, 1, Len(arr) - 1)), arr[Len(arr)])

RECURSIVE InsertCanonical(_, _)
InsertCanonical(sorted, x) ==
  IF sorted = << >> THEN <<x>>
  ELSE IF CanonicalLess(x, Head(sorted)) THEN <<x>> \o sorted
       ELSE <<Head(sorted)>> \o InsertCanonical(Tail(sorted), x)

RECURSIVE SortCanonical(_)
SortCanonical(arr) ==
  IF arr = << >> THEN << >>
  ELSE InsertCanonical(SortCanonical(SubSeq(arr, 1, Len(arr) - 1)), arr[Len(arr)])

InQuadrant(arr, q) == SelectSeq(arr, LAMBDA t : t.quadrant = q)

\* Mutant of ArrayMove: the two elements are exchanged
ArrayMoveSwap(arr, from, to) ==
  LET pos == IF to < 0 THEN Len(arr) + to ELSE to
  IN [arr EXCEPT ![from + 1] = arr[pos + 1], ![pos + 1] = arr[from + 1]]

\* Mutant of ArrayMove: a negative `to` counts from the end of the array
\* the element has already been removed from
ArrayMoveAfterRemoval(arr, from, to) ==
  LET rest == RemoveAt(arr, from)
      pos == IF to < 0 THEN Len(rest) + to ELSE to
  IN InsertAt(rest, IF pos < 0 THEN 0 ELSE pos, arr[from + 1])

\* arrayMove of @dnd-kit/sortable: the insert position is computed before the
\* element is removed (a negative `to` counts from the end of the full array)
ArrayMove(arr, from, to) ==
  LET pos == IF to < 0 THEN Len(arr) + to ELSE to
  IN InsertAt(RemoveAt(arr, from), pos, arr[from + 1])

\* ------------------------------------------------------- pure functions
\* generateId() for a stored task that has no id
FallbackId == 0

\* A value of a raw task's order or updatedAt for which Number.isFinite is
\* false (NaN, an infinity, a string, null); the numbers of the model are
\* the naturals
NotFinite == -1
IsFinite(v) == v # NotFinite

\* Mutant of NormalizeTask: a missing or unknown quadrant is kept out of the
\* four quadrants
NormalizeTaskKeepsQuadrant(task, fallbackOrder) ==
  [id        |-> IF "id" \in DOMAIN task THEN task.id ELSE FallbackId,
   title     |-> IF "title" \in DOMAIN task THEN task.title ELSE << >>,
   quadrant  |-> IF "quadrant" \in DOMAIN task THEN task.quadrant ELSE "",
   completed |-> IF "completed" \in DOMAIN task THEN task.completed ELSE FALSE,
   order     |-> IF "order" \in DOMAIN task /\ IsFinite(task.order)
                 THEN task.order ELSE fallbackOrder,
   updatedAt |-> IF "updatedAt" \in DOMAIN task /\ IsFinite(task.updatedAt)
                 THEN task.updatedAt ELSE 0]

\* normalizeTask: a raw task is a record that may lack fields
NormalizeTask(task, fallbackOrder) ==
  [id        |-> IF "id" \in DOMAIN task THEN task.id ELSE FallbackId,
   title     |-> IF "title" \in DOMAIN task THEN task.title ELSE << >>,
   quadrant  |-> IF "quadrant" \in DOMAIN task /\ task.quadrant \in VALID_QUADRANTS
                 THEN task.quadrant ELSE "UI",
   completed |-> IF "completed" \in DOMAIN task THEN task.completed ELSE FALSE,
   order     |-> IF "order" \in DOMAIN task /\ IsFinite(task.order)
                 THEN task.order ELSE fallbackOrder,
   updatedAt |-> IF "updatedAt" \in DOMAIN task /\ IsFinite(task.updatedAt)
                 THEN task.updatedAt ELSE 0]

\* normalizeTasks: the fallback order is the array index
NormalizeTasks(rawTasks) ==
  [i \in 1..Len(rawTasks) |-> NormalizeTask(rawTasks[i], i - 1)]

\* getLatestUpdate: reduce with Math.max from 0
RECURSIVE GetLatestUpdate(_)
GetLatestUpdate(taskList) ==
  IF taskList = << >> THEN 0
  ELSE Max(GetLatestUpdate(SubSeq(taskList, 1, Len(taskList) - 1)),
           taskList[Len(taskList)].updatedAt)

\* Mutant of ToSignature: the normalized list is not sorted
ToSignatureUnsorted(taskList) ==
  [i \in 1..Len(taskList) |-> NormalizeTask(taskList[i], 0)]

\* toSignature: JSON.stringify of the normalized, canonically sorted list.
\* JSON.stringify is injective on lists of records with these six fields in
\* this key order, so the sorted list stands for the string.
ToSignature(taskList) ==
  SortCanonical([i \in 1..Len(taskList) |-> NormalizeTask(taskList[i], 0)])

\* getUserTasksStorageKey: the slot of an identity, lower-cased email
ToLowerCase(email) == IF email = "A" THEN "a" ELSE email
GetUserTasksStorageKey(email) == ToLowerCase(email)

\* ------------------------------------------------------------------ state
VARIABLES
  user,                    \* userEmail, NoUser when signed out
  tasks,                   \* the task store (React state)
  localStorage,            \* the durable slot of every identity
  now,                     \* Date.now()
  nextId,                  \* the next id generateId returns
  googleReady,             \* the identity provider's script has loaded
  accessToken,             \* None, or the account the token was issued for
  tokenExpiry,             \* the clock value from which the token no longer counts as valid
  tokenRequestRef,         \* the pending token request, if any
  syncTimerRef,            \* the pending debounce timer and the tasks it captured
  fileIdRef,               \* cached remote file id (None, or the namespace it is in)
  syncingRef,              \* reentrancy guard of pushTasksToCloud
  syncInitializedRef,
  lastSyncedSignatureRef,
  syncStatus,
  remote,                  \* the remote file of every account
  procs,                   \* asynchronous calls in flight, oldest first
  signIns                  \* sign-ins so far (bounds the run)

vars == <<user, tasks, localStorage, now, nextId, googleReady, accessToken,
          tokenExpiry, tokenRequestRef, syncTimerRef, fileIdRef, syncingRef,
          syncInitializedRef, lastSyncedSignatureRef, syncStatus, remote, procs,
          signIns>>

storeVars == <<user, tasks, localStorage, nextId, syncTimerRef>>
tokenVars == <<accessToken, tokenExpiry, tokenRequestRef>>
refVars   == <<fileIdRef, syncingRef, syncInitializedRef, lastSyncedSignatureRef,
               syncStatus, remote, signIns>>
syncVars  == <<refVars, procs>>

\* The bound on the calls in flight: the calls a signed-out session left
\* behind are allowed on top of MaxProcs, one per sign-in
ProcsBound == MaxProcs + signIns

NoTimer == [pending |-> FALSE, tasks |-> << >>]
NoFile  == [exists |-> FALSE, tasks |-> << >>]
\* answered: the token client's callback has run for the request and has
\* left the promise unsettled
NoRequest == [pending |-> FALSE, account |-> None, prompt |-> "", answered |-> FALSE]

\* ------------------------------------------------------- effects of a render
\* Mutant of PersistEffect: the slot is never written
PersistEffectSkipped(email, newTasks, storage) == storage

\* Mutant of PersistEffect: the slot is written with the collection of the
\* render before
PersistEffectLagging(email, newTasks, storage) ==
  IF email = NoUser THEN storage
  ELSE [storage EXCEPT ![GetUserTasksStorageKey(email)] =
          [exists |-> TRUE, tasks |-> tasks]]

\* Persist effect: with an identity signed in, the slot holds the store.
PersistEffect(email, newTasks, storage) ==
  IF email = NoUser THEN storage
  ELSE [storage EXCEPT ![GetUserTasksStorageKey(email)] =
          [exists |-> TRUE, tasks |-> newTasks]]

\* Mutant of PushEffect: a pending timer is kept, with the tasks its callback
\* closed over when it was set
PushEffectStale(email, newTasks, initialized, baseline) ==
  IF ~initialized \/ email = NoUser THEN NoTimer
  ELSE IF ToSignature(newTasks) = baseline THEN NoTimer
  ELSE IF syncTimerRef.pending THEN syncTimerRef
  ELSE [pending |-> TRUE, tasks |-> newTasks]

\* Debounced push effect. Its cleanup has cleared the timer of the previous
\* run; a new timer is set when sync is initialized and the signature
\* differs from the baseline. The timer's callback closes over newTasks.
PushEffect(email, newTasks, initialized, baseline) ==
  IF ~initialized \/ email = NoUser THEN NoTimer
  ELSE IF ToSignature(newTasks) = baseline THEN NoTimer
  ELSE [pending |-> TRUE, tasks |-> newTasks]

\* History kept with every initialize in flight: the store was changed by a
\* handler of the task store while it ran
MarkEdited(ps) ==
  [i \in 1..Len(ps) |->
     IF ps[i].kind = "init" THEN [ps[i] EXCEPT !.edited = TRUE] ELSE ps[i]]

\* setTasks(newTasks) by a handler of the task store, followed by the render
\* it causes
SetTasks(newTasks) ==
  /\ tasks' = newTasks
  /\ procs' = IF newTasks = tasks THEN procs ELSE MarkEdited(procs)
  /\ localStorage' = PersistEffect(user, newTasks, localStorage)
  /\ syncTimerRef' = PushEffect(user, newTasks, syncInitializedRef,
                               lastSyncedSignatureRef)

\* ------------------------------------------------------------ task store
\* Mutant of AddTaskResult: order is the number of tasks in the whole store
AddTaskResultGlobalOrder(prev, id, title, quadrant, t) ==
  Append(prev, [id |-> id, title |-> title, quadrant |-> quadrant,
                completed |-> FALSE,
                order |-> Len(prev),
                updatedAt |-> t])

\* addTask's updater: order is the number of tasks now in the quadrant
AddTaskResult(prev, id, title, quadrant, t) ==
  Append(prev, [id |-> id, title |-> title, quadrant |-> quadrant,
                completed |-> FALSE,
                order |-> Len(InQuadrant(prev, quadrant)),
                updatedAt |-> t])

\* Mutant of ToggleTaskResult: completed is flipped, updatedAt is kept
ToggleTaskResultUnstamped(prev, id, t) ==
  [i \in 1..Len(prev) |->
     IF prev[i].id = id
     THEN [prev[i] EXCEPT !.completed = ~prev[i].completed]
     ELSE prev[i]]

ToggleTaskResult(prev, id, t) ==
  [i \in 1..Len(prev) |->
     IF prev[i].id = id
     THEN [prev[i] EXCEPT !.completed = ~prev[i].completed, !.updatedAt = t]
     ELSE prev[i]]

\* Mutant of DeleteTaskResult: the tasks that remain are re-numbered by
\* their position in the store
DeleteTaskResultRenumbered(prev, id) ==
  LET kept == SelectSeq(prev, LAMBDA x : x.id # id)
  IN [i \in 1..Len(kept) |-> [kept[i] EXCEPT !.order = i - 1]]

DeleteTaskResult(prev, id) == SelectSeq(prev, LAMBDA x : x.id # id)

ClearCompletedResult(prev) == SelectSeq(prev, LAMBDA x : ~x.completed)

\* Mutant of ReorderTasksResult: the dragged task is taken out and not put
\* back
ReorderTasksResultLosing(prev, quadrantTasks, from, to, t) ==
  LET reordered == RemoveAt(quadrantTasks, from)
      updated == [i \in 1..Len(reordered) |->
                    [reordered[i] EXCEPT !.order = i - 1, !.updatedAt = t]]
      quadrantId == quadrantTasks[1].quadrant
      others == SelectSeq(prev, LAMBDA x : x.quadrant # quadrantId)
  IN others \o updated

\* reorderTasks: the quadrant's tasks are replaced by the moved sequence,
\* re-numbered by position, behind the tasks of the other quadrants
ReorderTasksResult(prev, quadrantTasks, from, to, t) ==
  LET reordered == ArrayMove(quadrantTasks, from, to)
      updated == [i \in 1..Len(reordered) |->
                    [reordered[i] EXCEPT !.order = i - 1, !.updatedAt = t]]
      quadrantId == quadrantTasks[1].quadrant
      others == SelectSeq(prev, LAMBDA x : x.quadrant # quadrantId)
  IN others \o updated

\* Mutant of MoveTaskResult: the source quadrant's remaining tasks keep
\* their old order values (no re-sequencing)
MoveTaskResultNoResequence(prev, activeTask, sourceQuadrant, targetQuadrant, t) ==
  LET sourceTasks == SortByOrder(SelectSeq(prev,
               LAMBDA x : x.quadrant = sourceQuadrant /\ x.id # activeTask.id))
      targetTasks == SortByOrder(InQuadrant(prev, targetQuadrant))
      movedTask == [activeTask EXCEPT !.quadrant = targetQuadrant,
                                      !.order = Len(targetTasks),
                                      !.updatedAt = t]
      rest == SelectSeq(prev, LAMBDA x : x.quadrant # sourceQuadrant
                                          /\ x.quadrant # targetQuadrant)
  IN rest \o sourceTasks \o targetTasks \o <<movedTask>>

\* Mutant of MoveTaskResult: the re-sequenced tasks of the source quadrant
\* keep their updatedAt
MoveTaskResultSiblingsUnstamped(prev, activeTask, sourceQuadrant, targetQuadrant, t) ==
  LET src == SortByOrder(SelectSeq(prev,
               LAMBDA x : x.quadrant = sourceQuadrant /\ x.id # activeTask.id))
      sourceTasks == [i \in 1..Len(src) |-> [src[i] EXCEPT !.order = i - 1]]
      targetTasks == SortByOrder(InQuadrant(prev, targetQuadrant))
      movedTask == [activeTask EXCEPT !.quadrant = targetQuadrant,
                                      !.order = Len(targetTasks),
                                      !.updatedAt = t]
      rest == SelectSeq(prev, LAMBDA x : x.quadrant # sourceQuadrant
                                          /\ x.quadrant # targetQuadrant)
  IN rest \o sourceTasks \o targetTasks \o <<movedTask>>

\* handleDragEnd, cross-quadrant branch
MoveTaskResult(prev, activeTask, sourceQuadrant, targetQuadrant, t) ==
  LET src == SortByOrder(SelectSeq(prev,
               LAMBDA x : x.quadrant = sourceQuadrant /\ x.id # activeTask.id))
      sourceTasks == [i \in 1..Len(src) |->
                        [src[i] EXCEPT !.order = i - 1, !.updatedAt = t]]
      targetTasks == SortByOrder(InQuadrant(prev, targetQuadrant))
      movedTask == [activeTask EXCEPT !.quadrant = targetQuadrant,
                                      !.order = Len(targetTasks),
                                      !.updatedAt = t]
      rest == SelectSeq(prev, LAMBDA x : x.quadrant # sourceQuadrant
                                          /\ x.quadrant # targetQuadrant)
  IN rest \o sourceTasks \o targetTasks \o <<movedTask>>

\* What the drag collaborator reports as `over`: nothing, a task (whose data
\* carries the task's quadrant) or a quadrant container.
NoOver == [kind |-> "none", id |-> 0, quadrant |-> ""]
OverTask(x) == [kind |-> "task", id |-> x.id, quadrant |-> x.quadrant]
OverContainer(q) == [kind |-> "container", id |-> 0, quadrant |-> q]
OverTargets == {NoOver} \cup {OverTask(tasks[i]) : i \in 1..Len(tasks)}
                        \cup {OverContainer(q) : q \in Quadrants}

\* The values Date.now() can return next: the clock never runs backwards.
\* A handler that reads the clock takes the value read as its input t.
Clock == now..MaxClock

\* Mutant of AddTask: the title is tested without trimming
AddTaskUntrimmed(title, quadrant, t) ==
  /\ user # NoUser
  /\ IF title = << >>
     THEN UNCHANGED vars
     ELSE /\ nextId <= MaxTasks
          /\ SetTasks(AddTaskResult(tasks, nextId, title, quadrant, t))
          /\ nextId' = nextId + 1
          /\ now' = t
          /\ UNCHANGED <<user, googleReady, tokenVars, refVars>>

\* The user-facing handlers exist while an identity is signed in (607-615).
AddTask(title, quadrant, t) ==
  /\ user # NoUser
  /\ IF Trim(title) = << >>
     THEN UNCHANGED vars
     ELSE /\ nextId <= MaxTasks
          /\ SetTasks(AddTaskResult(tasks, nextId, title, quadrant, t))
          /\ nextId' = nextId + 1
          /\ now' = t
          /\ UNCHANGED <<user, googleReady, tokenVars, refVars>>

ToggleTask(id, t) ==
  /\ user # NoUser
  /\ SetTasks(ToggleTaskResult(tasks, id, t))
  /\ now' = t
  /\ UNCHANGED <<user, nextId, googleReady, tokenVars, refVars>>

DeleteTask(id) ==
  /\ user # NoUser
  /\ SetTasks(DeleteTaskResult(tasks, id))
  /\ UNCHANGED <<user, now, nextId, googleReady, tokenVars, refVars>>

ClearCompleted ==
  /\ user # NoUser
  /\ SetTasks(ClearCompletedResult(tasks))
  /\ UNCHANGED <<user, now, nextId, googleReady, tokenVars, refVars>>

\* Mutant of HandleDragEnd: a drop without a target is taken as a drop on the
\* container of the task's own quadrant
HandleDragEndUnguarded(activeId, over, t) ==
  /\ user # NoUser
  /\ IF ~HasId(tasks, activeId)
     THEN UNCHANGED vars
     ELSE LET activeTask == tasks[FindIndexById(tasks, activeId) + 1]
              sourceQuadrant == activeTask.quadrant
              targetQuadrant == IF over.kind = "none" THEN sourceQuadrant
                                ELSE over.quadrant
              quadrantTasks == SortByOrder(InQuadrant(tasks, sourceQuadrant))
              oldIndex == FindIndexById(quadrantTasks, activeId)
              newIndex == IF over.kind = "task"
                          THEN FindIndexById(quadrantTasks, over.id) ELSE -1
          IN IF sourceQuadrant = targetQuadrant
             THEN IF oldIndex # newIndex
                  THEN /\ SetTasks(ReorderTasksResult(tasks, quadrantTasks,
                                                      oldIndex, newIndex, t))
                       /\ now' = t
                       /\ UNCHANGED <<user, nextId, googleReady,
                                      tokenVars, refVars>>
                  ELSE UNCHANGED vars
             ELSE /\ SetTasks(MoveTaskResult(tasks, activeTask, sourceQuadrant,
                                             targetQuadrant, t))
                  /\ now' = t
                  /\ UNCHANGED <<user, nextId, googleReady,
                                 tokenVars, refVars>>

HandleDragEnd(activeId, over, t) ==
  /\ user # NoUser
  /\ IF over.kind = "none" \/ ~HasId(tasks, activeId)
     THEN UNCHANGED vars
     ELSE LET activeTask == tasks[FindIndexById(tasks, activeId) + 1]
              sourceQuadrant == activeTask.quadrant
              targetQuadrant == over.quadrant
              quadrantTasks == SortByOrder(InQuadrant(tasks, sourceQuadrant))
              oldIndex == FindIndexById(quadrantTasks, activeId)
              newIndex == IF over.kind = "task"
                          THEN FindIndexById(quadrantTasks, over.id) ELSE -1
          IN IF sourceQuadrant = targetQuadrant
             THEN IF oldIndex # newIndex
                  THEN /\ SetTasks(ReorderTasksResult(tasks, quadrantTasks,
                                                      oldIndex, newIndex, t))
                       /\ now' = t
                       /\ UNCHANGED <<user, nextId, googleReady,
                                      tokenVars, refVars>>
                  ELSE UNCHANGED vars
             ELSE /\ SetTasks(MoveTaskResult(tasks, activeTask, sourceQuadrant,
                                             targetQuadrant, t))
                  /\ now' = t
                  /\ UNCHANGED <<user, nextId, googleReady,
                                 tokenVars, refVars>>

\* --------------------------------------------- the store without the cloud
\* A session restored from the stored user while the identity provider's
\* script has not loaded: the sync effects never run (406, 477).
BaseInit ==
  /\ user = "a"
  /\ tasks = << >>
  /\ localStorage = [k \in Identities |->
                       IF k = "a" THEN [exists |-> TRUE, tasks |-> << >>] ELSE NoFile]
  /\ now = 1
  /\ nextId = 1
  /\ googleReady = FALSE
  /\ accessToken = None
  /\ tokenExpiry = 0
  /\ tokenRequestRef = NoRequest
  /\ syncTimerRef = NoTimer
  /\ fileIdRef = None
  /\ syncingRef = FALSE
  /\ syncInitializedRef = FALSE
  /\ lastSyncedSignatureRef = ToSignature(<< >>)
  /\ syncStatus = "idle"
  /\ procs = << >>
  /\ signIns = 0

StoreInit ==
  /\ BaseInit
  /\ remote = [k \in Identities |-> NoFile]

StoreNext ==
  \/ \E title \in Titles, q \in Quadrants, t \in Clock : AddTask(title, q, t)
  \/ \E id \in 1..MaxTasks, t \in Clock : ToggleTask(id, t)
  \/ \E id \in 1..MaxTasks : DeleteTask(id)
  \/ ClearCompleted
  \/ \E id \in 1..MaxTasks, over \in OverTargets, t \in Clock :
       HandleDragEnd(id, over, t)

SpecStore == StoreInit /\ [][StoreNext]_vars

\* ------------------------------------------------------------ cloud sync
\* An asynchronous call in flight. kind: "init" (initialize, 409-460) or
\* "push" (pushTasksToCloud, 377-397); pc: the await it is suspended at,
\* "token" (ensureAccessToken), "read" (readRemoteTasks, request not yet
\* answered), "compare" (readRemoteTasks answered, initialize not yet
\* resumed) or "write" (writeRemoteTasks); cancelled: the flag of the initialization effect's
\* cleanup; email: userEmail of the render that started it; token: the
\* account of the token it holds; cached: fileIdRef.current as
\* findRemoteFileId saw it when the remote call began; snapshot: what
\* readRemoteTasks was answered; payload: the task list handed to
\* writeRemoteTasks; edited: see MarkEdited.
Proc(kind, pc, email, token, cached, payload) ==
  [kind |-> kind, pc |-> pc, cancelled |-> FALSE, email |-> email,
   token |-> token, cached |-> cached, snapshot |-> NoFile,
   payload |-> payload, edited |-> FALSE]

\* ensureAccessToken's isValid at clock value t. tokenExpiry is kept with the
\* 60 s margin already taken off.
TokenIsValid(tok, expiry, t) == tok # None /\ expiry # 0 /\ t < expiry

\* requestAccessToken: a pending request is shared, otherwise one is issued
\* with the given prompt, under the identity signed in
RequestAccessToken(req, email, prompt) ==
  IF req.pending THEN req
  ELSE [pending |-> TRUE, account |-> email, prompt |-> prompt, answered |-> FALSE]

\* ensureAccessToken's prompt (266); every caller passes interactive: false
EnsureAccessTokenPrompt(interactive) == IF interactive THEN "consent" ELSE "none"

\* initialize up to its first suspension: with a valid token it goes on to
\* readRemoteTasks, otherwise it waits for the token request
StartInitialize(email, tok, expiry, t, fileId) ==
  IF TokenIsValid(tok, expiry, t)
  THEN Proc("init", "read", email, tok, fileId, << >>)
  ELSE Proc("init", "token", email, None, None, << >>)

\* cleanup of the initialization effect: cancelled = true. An initialize
\* suspended at ensureAccessToken then returns without any effect, so it is
\* dropped; one suspended at a remote call still completes that call.
CancelInits(ps) ==
  LET kept == SelectSeq(ps, LAMBDA p : ~(p.kind = "init" /\ p.pc = "token"))
  IN [i \in 1..Len(kept) |->
        IF kept[i].kind = "init" THEN [kept[i] EXCEPT !.cancelled = TRUE]
        ELSE kept[i]]

\* The initialization effect re-runs (its dependencies changed): cleanup,
\* then a new initialize when an identity is signed in and the script loaded.
RunInitEffect(ps, email, ready, tok, expiry, t, fileId) ==
  IF email = NoUser \/ ~ready THEN CancelInits(ps)
  ELSE Append(CancelInits(ps), StartInitialize(email, tok, expiry, t, fileId))

InitEffectRequest(req, email, ready, tok, expiry, t) ==
  IF email = NoUser \/ ~ready \/ TokenIsValid(tok, expiry, t) THEN req
  ELSE RequestAccessToken(req, email, EnsureAccessTokenPrompt(FALSE))

InitEffectStatus(status, email, ready) ==
  IF email = NoUser \/ ~ready THEN status ELSE "syncing"

\* A stored or downloaded value that is not the JSON text of an array carries
\* a field text: "unparseable" (JSON.parse throws) or "object" (it parses to
\* something that is not an array, or has no array under `tasks`)
IsArray(file) == "text" \notin DOMAIN file
Unparseable(file) == "text" \in DOMAIN file /\ file.text = "unparseable"

\* The identity-change effect's load (138-148): the slot's content,
\* normalized; the empty list when JSON.parse throws (144-147) or the value
\* is not an array (61)
LoadTasks(storage, email) ==
  LET slot == storage[GetUserTasksStorageKey(email)]
  IN IF slot.exists /\ IsArray(slot) THEN NormalizeTasks(slot.tasks) ELSE << >>

\* The provider's script finishes loading (load, 180-223)
GoogleLoaded ==
  /\ ~googleReady
  /\ googleReady' = TRUE
  /\ procs' = RunInitEffect(procs, user, TRUE, accessToken, tokenExpiry, now,
                            fileIdRef)
  /\ tokenRequestRef' = InitEffectRequest(tokenRequestRef, user, TRUE,
                                          accessToken, tokenExpiry, now)
  /\ syncStatus' = InitEffectStatus(syncStatus, user, TRUE)
  /\ UNCHANGED <<storeVars, now, accessToken, tokenExpiry, fileIdRef, syncingRef,
                 syncInitializedRef, lastSyncedSignatureRef, remote, signIns>>

\* The sign-in callback (185-192) and the render it causes: the
\* identity-change effect loads the slot, the persist effect writes the
\* loaded list back, the initialization effect starts initialize.
SignIn(email, t) ==
  /\ user = NoUser
  /\ googleReady
  /\ signIns < MaxSignIns
  /\ signIns' = signIns + 1
  /\ LET loaded == LoadTasks(localStorage, email)
         newProcs == RunInitEffect(procs, email, googleReady, accessToken,
                                   tokenExpiry, t, None)
     IN /\ Len(newProcs) <= MaxProcs + signIns + 1
        /\ user' = email
        /\ tasks' = loaded
        /\ localStorage' = PersistEffect(email, loaded, localStorage)
        /\ lastSyncedSignatureRef' = ToSignature(loaded)
        /\ syncInitializedRef' = FALSE
        /\ fileIdRef' = None
        /\ syncTimerRef' = NoTimer
        /\ procs' = newProcs
        /\ tokenRequestRef' = InitEffectRequest(tokenRequestRef, email, googleReady,
                                                accessToken, tokenExpiry, t)
        /\ syncStatus' = "syncing"
        /\ now' = t
  /\ UNCHANGED <<nextId, googleReady, accessToken, tokenExpiry, syncingRef,
                 remote>>

\* Mutant of SignOut: the push effect's cleanup does not clear the timer
SignOutKeepsTimer ==
  /\ user # NoUser
  /\ user' = NoUser
  /\ accessToken' = None
  /\ tokenExpiry' = 0
  /\ tasks' = << >>
  /\ syncStatus' = "idle"
  /\ lastSyncedSignatureRef' = ToSignature(<< >>)
  /\ syncInitializedRef' = FALSE
  /\ fileIdRef' = None
  /\ procs' = CancelInits(procs)
  /\ UNCHANGED <<localStorage, now, nextId, googleReady, tokenRequestRef,
                 syncingRef, remote, signIns, syncTimerRef>>

\* Sign out (634-647) and the render it causes: the identity-change effect
\* resets the refs, the cleanups cancel initialize and clear the timer.
SignOut ==
  /\ user # NoUser
  /\ user' = NoUser
  /\ accessToken' = None
  /\ tokenExpiry' = 0
  /\ tasks' = << >>
  /\ syncStatus' = "idle"
  /\ lastSyncedSignatureRef' = ToSignature(<< >>)
  /\ syncInitializedRef' = FALSE
  /\ fileIdRef' = None
  /\ syncTimerRef' = NoTimer
  /\ procs' = CancelInits(procs)
  /\ UNCHANGED <<localStorage, now, nextId, googleReady, tokenRequestRef,
                 syncingRef, remote, signIns>>

\* ------------------------------------------------------ token acquisition
\* A waiter resumes with the token: initialize calls readRemoteTasks,
\* pushTasksToCloud calls writeRemoteTasks
ResumeWithToken(p, tok, fileId) ==
  IF p.pc # "token" THEN p
  ELSE [p EXCEPT !.pc = IF p.kind = "init" THEN "read" ELSE "write",
                 !.token = tok, !.cached = fileId]

\* The accounts the provider may answer a pending request for. The token
\* client is created without an account hint (196-198), so the account is
\* the provider's choice: the identity the request was made under, or the
\* identity signed in when the answer arrives.
TokenAccounts ==
  {tokenRequestRef.account} \cup (IF user = NoUser THEN {} ELSE {user})

\* The token client's callback with an access token (208-216): the token
\* state is set and the waiters resume; the render that follows re-creates
\* ensureAccessToken and pushTasksToCloud, so the initialization effect and
\* the push effect run again.
TokenGranted(tok, expiresIn, t) ==
  /\ tokenRequestRef.pending
  /\ tok \in TokenAccounts
  /\ LET resumed == [i \in 1..Len(procs) |-> ResumeWithToken(procs[i], tok, fileIdRef)]
         newProcs == RunInitEffect(resumed, user, googleReady, tok, t + expiresIn, t,
                                   fileIdRef)
     IN /\ Len(newProcs) <= ProcsBound
        /\ accessToken' = tok
        /\ tokenExpiry' = t + expiresIn
        /\ now' = t
        /\ tokenRequestRef' = NoRequest
        /\ procs' = newProcs
        /\ syncStatus' = InitEffectStatus(syncStatus, user, googleReady)
        /\ syncTimerRef' = PushEffect(user, tasks, syncInitializedRef,
                                     lastSyncedSignatureRef)
  /\ UNCHANGED <<signIns, user, tasks, localStorage, nextId, googleReady, fileIdRef,
                 syncingRef, syncInitializedRef, lastSyncedSignatureRef, remote>>

\* The callback with an error (200-206): the request is rejected and
\* ensureAccessToken returns null to every waiter. initialize reports the
\* error (414-419); pushTasksToCloud throws "No token" (386, 391-396).
TokenDenied ==
  /\ tokenRequestRef.pending
  /\ tokenRequestRef' = NoRequest
  /\ procs' = SelectSeq(procs, LAMBDA p : p.pc # "token")
  /\ syncStatus' = IF \E i \in 1..Len(procs) : procs[i].pc = "token"
                   THEN "error" ELSE syncStatus
  /\ syncingRef' = IF \E i \in 1..Len(procs) :
                        procs[i].pc = "token" /\ procs[i].kind = "push"
                   THEN FALSE ELSE syncingRef
  /\ UNCHANGED <<signIns, storeVars, now, googleReady, accessToken, tokenExpiry,
                 fileIdRef, syncInitializedRef, lastSyncedSignatureRef, remote>>

\* ------------------------------------------------------------ remote calls
\* findRemoteFileId: the cached id, or the file of the token's account
FindRemoteFileId(cached, tok, rem) ==
  IF cached # None THEN cached
  ELSE IF rem[tok].exists THEN tok ELSE None

\* A file id of another account's folder is refused by the remote (283-286)
RemoteAccepts(p) ==
  LET id == FindRemoteFileId(p.cached, p.token, remote)
  IN id = None \/ id = p.token

\* response.json() (290) returns: the downloaded body is JSON text
RemoteParses(p) ==
  LET id == FindRemoteFileId(p.cached, p.token, remote)
  IN IF id = None THEN TRUE ELSE ~Unparseable(remote[id])

\* readRemoteTasks' result
ReadRemoteTasks(p) ==
  LET id == FindRemoteFileId(p.cached, p.token, remote)
  IN IF id = None THEN NoFile
     ELSE [exists |-> TRUE,
           tasks |-> IF IsArray(remote[id]) THEN NormalizeTasks(remote[id].tasks)
                     ELSE << >>]

\* Mutant of WriteRemoteTasks: the write is acknowledged but never lands
WriteRemoteTasksDropped(p) == remote

\* writeRemoteTasks: the file of the token's account holds the normalized list
WriteRemoteTasks(p) ==
  [remote EXCEPT ![p.token] = [exists |-> TRUE, tasks |-> NormalizeTasks(p.payload)]]

RemoveProc(ps, i) == RemoveAt(ps, i - 1)

\* Mutant of InitDecision: a differing remote list always wins
InitDecisionRemoteAlways(remoteRes, local) ==
  IF remoteRes.exists
  THEN IF ToSignature(remoteRes.tasks) # ToSignature(local) THEN "adopt" ELSE "same"
  ELSE IF Len(local) > 0 THEN "seed" ELSE "empty"

\* Mutant of InitDecision: a missing remote file is never seeded
InitDecisionNoSeed(remoteRes, local) ==
  IF remoteRes.exists
  THEN IF ToSignature(remoteRes.tasks) # ToSignature(local)
       THEN IF GetLatestUpdate(remoteRes.tasks) >= GetLatestUpdate(local)
            THEN "adopt" ELSE "push"
       ELSE "same"
  ELSE "empty"

\* Mutant of InitDecision: the signatures are not compared, the local list is
\* written whenever the remote list is not strictly newer
InitDecisionNoSame(remoteRes, local) ==
  IF remoteRes.exists
  THEN IF GetLatestUpdate(remoteRes.tasks) > GetLatestUpdate(local)
       THEN "adopt" ELSE "push"
  ELSE IF Len(local) > 0 THEN "seed" ELSE "empty"

\* initialize's decision (432-449) on the remote result and the local list:
\* "adopt" the remote list, "push" the local one, "same", "seed" or "empty"
InitDecision(remoteRes, local) ==
  IF remoteRes.exists
  THEN IF ToSignature(remoteRes.tasks) # ToSignature(local)
       THEN IF GetLatestUpdate(remoteRes.tasks) >= GetLatestUpdate(local)
            THEN "adopt" ELSE "push"
       ELSE "same"
  ELSE IF Len(local) > 0 THEN "seed" ELSE "empty"

\* Mutant of AdoptRemote: a per-task merge, the local tasks the remote list
\* does not hold are kept behind the remote ones
AdoptRemoteMerged(remoteTasks, local) ==
  remoteTasks \o SelectSeq(local, LAMBDA x : ~HasId(remoteTasks, x.id))

\* The list initialize hands to setTasks when the remote wins (435): the
\* remote list, whatever the local one holds
AdoptRemote(remoteTasks, local) == remoteTasks

\* ---------------------------------------------------------- initialization
\* The remote answers readRemoteTasks (295-317): the listing caches the file
\* id, the download is the snapshot initialize will compare
InitReadServed(i) ==
  /\ i \in 1..Len(procs)
  /\ procs[i].kind = "init" /\ procs[i].pc = "read"
  /\ RemoteAccepts(procs[i])
  /\ RemoteParses(procs[i])
  /\ LET p == procs[i]
         id == FindRemoteFileId(p.cached, p.token, remote)
         listed == IF p.cached = None THEN id ELSE fileIdRef
     IN /\ fileIdRef' = listed
        /\ procs' = [procs EXCEPT ![i] =
                       [p EXCEPT !.pc = "compare", !.snapshot = ReadRemoteTasks(p)]]
  /\ UNCHANGED <<signIns, storeVars, now, googleReady, tokenVars, syncingRef,
                 syncInitializedRef, lastSyncedSignatureRef, syncStatus, remote>>

\* initialize resumes with the snapshot (423-453)
InitReadDone(i) ==
  /\ i \in 1..Len(procs)
  /\ procs[i].kind = "init" /\ procs[i].pc = "compare"
  /\ LET p == procs[i]
         remoteRes == p.snapshot
         local == LoadTasks(localStorage, p.email)
         localSig == ToSignature(local)
         remoteSig == ToSignature(remoteRes.tasks)
         decision == InitDecision(remoteRes, local)
         adopted == AdoptRemote(remoteRes.tasks, local)
     IN IF p.cancelled
        THEN /\ procs' = RemoveProc(procs, i)
             /\ UNCHANGED <<tasks, localStorage, syncTimerRef, syncInitializedRef,
                            lastSyncedSignatureRef, syncStatus>>
        ELSE CASE decision = "adopt" ->
                    /\ tasks' = adopted
                    /\ localStorage' = PersistEffect(user, adopted, localStorage)
                    /\ lastSyncedSignatureRef' = remoteSig
                    /\ syncInitializedRef' = TRUE
                    /\ syncStatus' = "ready"
                    /\ syncTimerRef' = PushEffect(user, adopted, TRUE, remoteSig)
                    /\ procs' = RemoveProc(procs, i)
               [] decision \in {"push", "seed"} ->
                    /\ procs' = [procs EXCEPT ![i] =
                                   [p EXCEPT !.pc = "write", !.cached = fileIdRef,
                                             !.payload = local]]
                    /\ UNCHANGED <<tasks, localStorage, syncTimerRef,
                                   syncInitializedRef, lastSyncedSignatureRef,
                                   syncStatus>>
               [] decision = "same" ->
                    /\ lastSyncedSignatureRef' = localSig
                    /\ syncInitializedRef' = TRUE
                    /\ syncStatus' = "ready"
                    /\ procs' = RemoveProc(procs, i)
                    /\ UNCHANGED <<tasks, localStorage, syncTimerRef>>
               [] decision = "empty" ->
                    /\ lastSyncedSignatureRef' = ToSignature(<< >>)
                    /\ syncInitializedRef' = TRUE
                    /\ syncStatus' = "ready"
                    /\ procs' = RemoveProc(procs, i)
                    /\ UNCHANGED <<tasks, localStorage, syncTimerRef>>
  /\ UNCHANGED <<signIns, user, now, nextId, googleReady, tokenVars, fileIdRef,
                 syncingRef, remote>>

\* readRemoteTasks throws (a failed request, a file id the remote refuses, or
\* a body that is not JSON text):
\* the catch of initialize (454-459). atGet: the listing had succeeded and
\* cached the file id before the download failed.
InitReadFail(i, atGet) ==
  /\ i \in 1..Len(procs)
  /\ procs[i].kind = "init" /\ procs[i].pc = "read"
  /\ LET p == procs[i]
         id == FindRemoteFileId(p.cached, p.token, remote)
     IN /\ atGet => id # None
        /\ ~(RemoteAccepts(p) /\ RemoteParses(p)) => atGet
        /\ fileIdRef' = IF atGet /\ p.cached = None THEN id ELSE fileIdRef
        /\ syncStatus' = IF p.cancelled THEN syncStatus ELSE "error"
        /\ procs' = RemoveProc(procs, i)
  /\ UNCHANGED <<signIns, storeVars, now, googleReady, tokenVars, syncingRef,
                 syncInitializedRef, lastSyncedSignatureRef, remote>>

\* writeRemoteTasks returns to initialize (438-439 or 445-446, then 451-453);
\* nothing after the await looks at `cancelled`
InitWriteDone(i) ==
  /\ i \in 1..Len(procs)
  /\ procs[i].kind = "init" /\ procs[i].pc = "write"
  /\ RemoteAccepts(procs[i])
  /\ remote' = WriteRemoteTasks(procs[i])
  /\ fileIdRef' = IF procs[i].cached = None THEN procs[i].token ELSE fileIdRef
  /\ lastSyncedSignatureRef' = ToSignature(procs[i].payload)
  /\ syncInitializedRef' = TRUE
  /\ syncStatus' = "ready"
  /\ procs' = RemoveProc(procs, i)
  /\ UNCHANGED <<signIns, storeVars, now, googleReady, tokenVars, syncingRef>>

InitWriteFail(i) ==
  /\ i \in 1..Len(procs)
  /\ procs[i].kind = "init" /\ procs[i].pc = "write"
  /\ syncStatus' = IF procs[i].cancelled THEN syncStatus ELSE "error"
  /\ procs' = RemoveProc(procs, i)
  /\ UNCHANGED <<signIns, storeVars, now, googleReady, tokenVars, fileIdRef, syncingRef,
                 syncInitializedRef, lastSyncedSignatureRef, remote>>

\* ------------------------------------------------------------ debounced push
\* Mutant of PushTasksToCloud: no reentrancy guard
PushTasksToCloudUnguarded(nextTasks, t) ==
  /\ syncingRef' = TRUE
  /\ syncStatus' = "syncing"
  /\ IF TokenIsValid(accessToken, tokenExpiry, t)
     THEN /\ procs' = Append(procs, Proc("push", "write", user, accessToken,
                                          fileIdRef, nextTasks))
          /\ UNCHANGED tokenRequestRef
     ELSE /\ procs' = Append(procs, Proc("push", "token", user, None, None,
                                          nextTasks))
          /\ tokenRequestRef' =
               RequestAccessToken(tokenRequestRef, user, EnsureAccessTokenPrompt(FALSE))

\* pushTasksToCloud up to its first suspension (377-388)
PushTasksToCloud(nextTasks, t) ==
  IF syncingRef
  THEN UNCHANGED <<syncingRef, syncStatus, procs, tokenRequestRef>>
  ELSE /\ syncingRef' = TRUE
       /\ syncStatus' = "syncing"
       /\ IF TokenIsValid(accessToken, tokenExpiry, t)
          THEN /\ procs' = Append(procs, Proc("push", "write", user, accessToken,
                                               fileIdRef, nextTasks))
               /\ UNCHANGED tokenRequestRef
          ELSE /\ procs' = Append(procs, Proc("push", "token", user, None, None,
                                               nextTasks))
               /\ tokenRequestRef' =
                    RequestAccessToken(tokenRequestRef, user, EnsureAccessTokenPrompt(FALSE))

\* The debounce timer fires (486-488) with the tasks its callback closed over
TimerFires(t) ==
  /\ syncTimerRef.pending
  /\ syncTimerRef' = NoTimer
  /\ PushTasksToCloud(syncTimerRef.tasks, t)
  /\ Len(procs') <= ProcsBound
  /\ now' = t
  /\ UNCHANGED <<signIns, user, tasks, localStorage, nextId, googleReady, accessToken,
                 tokenExpiry, fileIdRef, syncInitializedRef, lastSyncedSignatureRef,
                 remote>>

\* writeRemoteTasks returns to pushTasksToCloud (388-390, 394-396)
PushWriteDone(i) ==
  /\ i \in 1..Len(procs)
  /\ procs[i].kind = "push" /\ procs[i].pc = "write"
  /\ RemoteAccepts(procs[i])
  /\ remote' = WriteRemoteTasks(procs[i])
  /\ fileIdRef' = IF procs[i].cached = None THEN procs[i].token ELSE fileIdRef
  /\ lastSyncedSignatureRef' = ToSignature(procs[i].payload)
  /\ syncStatus' = "ready"
  /\ syncingRef' = FALSE
  /\ procs' = RemoveProc(procs, i)
  /\ UNCHANGED <<signIns, storeVars, now, googleReady, tokenVars, syncInitializedRef>>

\* writeRemoteTasks throws (391-396)
PushWriteFail(i) ==
  /\ i \in 1..Len(procs)
  /\ procs[i].kind = "push" /\ procs[i].pc = "write"
  /\ syncStatus' = "error"
  /\ syncingRef' = FALSE
  /\ procs' = RemoveProc(procs, i)
  /\ UNCHANGED <<signIns, storeVars, now, googleReady, tokenVars, fileIdRef,
                 syncInitializedRef, lastSyncedSignatureRef, remote>>

\* --------------------------------------------------------- the whole system
\* The id of the task another device created
OtherDeviceId == MaxTasks + 1

\* What the account's remote file holds when the session starts: nothing, or
\* the list another device of the same account has pushed at clock value t
OtherDeviceTasks(t) ==
  AddTaskResult(<< >>, OtherDeviceId, <<"a">>, "UI", t)

InitialRemotes ==
  {[k \in Identities |-> NoFile]} \cup
  {[k \in Identities |->
      IF k = "a" THEN [exists |-> TRUE, tasks |-> OtherDeviceTasks(t)] ELSE NoFile]
     : t \in 1..MaxClock}

Init ==
  /\ BaseInit
  /\ remote \in InitialRemotes

\* The quadrant the handlers are given while the sync runs; moves between
\* quadrants are explored by SpecStore
SyncQuadrants == {"UI"}

SyncOverTargets == {NoOver} \cup {OverTask(tasks[i]) : i \in 1..Len(tasks)}
                            \cup {OverContainer(q) : q \in SyncQuadrants}

\* The lifetimes the provider grants, in clock steps: the token expires at
\* the next step of the clock, or not within the run
ExpiresIn == {1, MaxClock}

Next ==
  \/ \E title \in Titles, q \in SyncQuadrants, t \in Clock :
       nextId <= MaxSyncTasks /\ AddTask(title, q, t)
  \/ \E id \in 1..MaxSyncTasks, t \in Clock : ToggleTask(id, t)
  \/ \E id \in 1..MaxSyncTasks : DeleteTask(id)
  \/ ClearCompleted
  \/ \E id \in 1..MaxSyncTasks, over \in SyncOverTargets, t \in Clock :
       HandleDragEnd(id, over, t)
  \/ GoogleLoaded
  \/ SignOut
  \/ \E tok \in Identities, expiresIn \in ExpiresIn, t \in Clock :
       TokenGranted(tok, expiresIn, t)
  \/ TokenDenied
  \/ \E i \in 1..MaxProcs : InitReadServed(i)
  \/ \E i \in 1..MaxProcs : InitReadDone(i)
  \/ \E i \in 1..MaxProcs, atGet \in BOOLEAN : InitReadFail(i, atGet)
  \/ \E i \in 1..MaxProcs : InitWriteDone(i)
  \/ \E i \in 1..MaxProcs : InitWriteFail(i)
  \/ \E t \in Clock : TimerFires(t)
  \/ \E i \in 1..MaxProcs : PushWriteDone(i)
  \/ \E i \in 1..MaxProcs : PushWriteFail(i)

Spec == Init /\ [][Next]_vars

\* ===================================================================
\* Claims
\* ===================================================================
OrderValues(q) ==
  {tasks[i].order : i \in {j \in 1..Len(tasks) : tasks[j].quadrant = q}}

CountIn(q) == Len(InQuadrant(tasks, q))

\* No task has left the store: every id handed out is still present
NothingRemoved == Len(tasks) = nextId - 1

\* C1 (as stated): after any sequence of addTask, toggleTask, deleteTask,
\* clearCompleted, reorder and move, the order values of every quadrant are
\* exactly {0, ..., count - 1}. deleteTask leaves a gap, so this fails.
C1_OrdersContiguous ==
  \A q \in Quadrants : OrderValues(q) = 0..(CountIn(q) - 1)

\* C1 (amended): as long as no task has been removed by deleteTask or
\* clearCompleted, the order values of every quadrant are exactly
\* {0, ..., count - 1}, whatever adds, toggles, reorders and moves were made.
C1_OrdersContiguousWithoutRemoval ==
  NothingRemoved => C1_OrdersContiguous

\* C1 witness: nothing removed, three tasks, a quadrant in which a task
\* created later is sequenced before an earlier one (a reorder has acted), and
\* a task that was moved into another quadrant
C1_Witness ==
  /\ NothingRemoved
  /\ Len(tasks) = 3
  /\ \E i, j \in 1..Len(tasks) :
       /\ tasks[i].id > tasks[j].id
       /\ tasks[i].quadrant = tasks[j].quadrant
       /\ tasks[i].order < tasks[j].order
  /\ \E q \in Quadrants : CountIn(q) = 1

\* C2 (as stated): no two tasks of one quadrant ever share an order value.
\* addTask after a deleteTask in the same quadrant breaks it.
C2_OrdersUnique ==
  \A i, j \in 1..Len(tasks) :
    (i # j /\ tasks[i].quadrant = tasks[j].quadrant)
      => tasks[i].order # tasks[j].order

\* -------------------------------------------------- initialization claims
\* An initialize call i suspended at the await pc
InitAt(i, pc) ==
  i \in 1..Len(procs) /\ procs[i].kind = "init" /\ procs[i].pc = pc

\* The same, and the effect that started it has not been cleaned up
LiveInitAt(i, pc) == InitAt(i, pc) /\ ~procs[i].cancelled

\* What initialize i compares: the remote snapshot and the persisted local list
RemoteOf(i) == procs[i].snapshot
LocalOf(i) == LoadTasks(localStorage, procs[i].email)

Slot(email) == localStorage[GetUserTasksStorageKey(email)]

\* initialize i goes on to writeRemoteTasks with the list `local`
GoesOnToWrite(i, local) ==
  /\ Len(procs') = Len(procs)
  /\ procs'[i].kind = "init"
  /\ procs'[i].pc = "write"
  /\ procs'[i].payload = local

\* initialize i is suspended at writeRemoteTasks
WriteInFlight(i) == InitAt(i, "write")

\* C3: during initialization, when the remote snapshot exists, its signature
\* differs from the local one and the remote max(updatedAt) is greater, the
\* in-memory collection becomes exactly the remote collection (no local task
\* survives), the local slot holds that collection, the remote is not
\* written and no write or push is started.
C3_RemoteNewerReplacesLocal ==
  [][\A i \in 1..MaxProcs :
       ( /\ LiveInitAt(i, "compare")
         /\ RemoteOf(i).exists
         /\ ToSignature(RemoteOf(i).tasks) # ToSignature(LocalOf(i))
         /\ GetLatestUpdate(RemoteOf(i).tasks) > GetLatestUpdate(LocalOf(i))
         /\ InitReadDone(i) )
       => /\ tasks' = RemoteOf(i).tasks
          /\ Slot(user)' = [exists |-> TRUE, tasks |-> RemoteOf(i).tasks]
          /\ remote' = remote
          /\ procs' = RemoveProc(procs, i)
          /\ ~syncTimerRef'.pending]_vars

\* C3 witness: a local task had been created, the newer list of the other
\* device has replaced it in memory and in the slot, the remote is as it was
C3_Witness ==
  /\ user = "a"
  /\ nextId = 2
  /\ now = 1
  /\ tasks = OtherDeviceTasks(MaxClock)
  /\ Slot("a") = [exists |-> TRUE, tasks |-> tasks]
  /\ remote["a"] = [exists |-> TRUE, tasks |-> tasks]
  /\ syncInitializedRef
  /\ syncStatus = "ready"
  /\ procs = << >>

\* C4: during initialization, when the remote snapshot exists, the signatures
\* differ and the local max(updatedAt) is the greater one, initialize issues
\* one remote write carrying the local collection (it goes on to
\* writeRemoteTasks with it, the write puts exactly that collection in the
\* remote file and initialize ends), and neither step changes the in-memory or
\* the persisted local collection.
C4_LocalNewerIsPushed ==
  [][\A i \in 1..MaxProcs :
       /\ ( /\ LiveInitAt(i, "compare")
            /\ RemoteOf(i).exists
            /\ ToSignature(RemoteOf(i).tasks) # ToSignature(LocalOf(i))
            /\ GetLatestUpdate(RemoteOf(i).tasks) < GetLatestUpdate(LocalOf(i))
            /\ InitReadDone(i) )
          => /\ GoesOnToWrite(i, LocalOf(i))
             /\ tasks' = tasks
             /\ localStorage' = localStorage
             /\ remote' = remote
       /\ ( /\ WriteInFlight(i)
            /\ remote[procs[i].token].exists
            /\ InitWriteDone(i) )
          => /\ remote'[procs[i].token] =
                  [exists |-> TRUE, tasks |-> procs[i].payload]
             /\ procs' = RemoveProc(procs, i)
             /\ tasks' = tasks
             /\ localStorage' = localStorage]_vars

\* C4 witness: initialize is at writeRemoteTasks with the local collection,
\* which is newer than the differing list the remote file still holds
C4_Witness ==
  \E i \in 1..Len(procs) :
    /\ LiveInitAt(i, "write")
    /\ procs[i].payload = tasks
    /\ Len(tasks) > 0
    /\ Slot("a").tasks = tasks
    /\ remote["a"].exists
    /\ ToSignature(remote["a"].tasks) # ToSignature(tasks)
    /\ GetLatestUpdate(remote["a"].tasks) < GetLatestUpdate(tasks)

\* C5: during initialization, when no remote snapshot exists, a non-empty
\* local collection is written to the remote (initialize goes on to
\* writeRemoteTasks with it, and the write creates the file holding it), an
\* empty one causes no write (initialize ends, status ready); neither case
\* raises the error status or touches the local collections.
C5_MissingRemoteIsSeeded ==
  [][\A i \in 1..MaxProcs :
       /\ ( /\ LiveInitAt(i, "compare")
            /\ ~RemoteOf(i).exists
            /\ InitReadDone(i) )
          => /\ tasks' = tasks
             /\ localStorage' = localStorage
             /\ remote' = remote
             /\ IF Len(LocalOf(i)) > 0
                THEN GoesOnToWrite(i, LocalOf(i)) /\ syncStatus' = syncStatus
                ELSE procs' = RemoveProc(procs, i) /\ syncStatus' = "ready"
       /\ ( /\ WriteInFlight(i)
            /\ ~remote[procs[i].token].exists
            /\ InitWriteDone(i) )
          => /\ remote'[procs[i].token] =
                  [exists |-> TRUE, tasks |-> procs[i].payload]
             /\ syncStatus' = "ready"]_vars

\* C5 witness: no remote file exists and initialize is at writeRemoteTasks
\* with the non-empty local collection
C5_Witness ==
  \E i \in 1..Len(procs) :
    /\ LiveInitAt(i, "write")
    /\ procs[i].payload = tasks
    /\ Len(tasks) > 0
    /\ Slot("a").tasks = tasks
    /\ ~remote["a"].exists
    /\ syncStatus = "syncing"

\* C6: during initialization, when the remote snapshot exists and its
\* signature equals the local one, the in-memory and persisted collections
\* and the remote file are left as they are, initialize ends without a write,
\* and the shared signature is the last-synced baseline.
C6_EqualSignaturesChangeNothing ==
  [][\A i \in 1..MaxProcs :
       ( /\ LiveInitAt(i, "compare")
         /\ RemoteOf(i).exists
         /\ ToSignature(RemoteOf(i).tasks) = ToSignature(LocalOf(i))
         /\ InitReadDone(i) )
       => /\ tasks' = tasks
          /\ localStorage' = localStorage
          /\ remote' = remote
          /\ procs' = RemoveProc(procs, i)
          /\ lastSyncedSignatureRef' = ToSignature(LocalOf(i))
          /\ lastSyncedSignatureRef' = ToSignature(RemoteOf(i).tasks)
          /\ syncInitializedRef']_vars

\* C6 witness: an initialize is about to compare a remote snapshot with a
\* non-empty local collection of the same signature
C6_Witness ==
  \E i \in 1..Len(procs) :
    /\ LiveInitAt(i, "compare")
    /\ RemoteOf(i).exists
    /\ Len(LocalOf(i)) > 0
    /\ ToSignature(RemoteOf(i).tasks) = ToSignature(LocalOf(i))

\* initialize i ends successfully in this step: after readRemoteTasks when
\* nothing is to be written, or after its writeRemoteTasks
InitCompletes(i) ==
  \/ /\ LiveInitAt(i, "compare")
     /\ InitReadDone(i)
     /\ Len(procs') < Len(procs)
  \/ /\ WriteInFlight(i)
     /\ InitWriteDone(i)

\* No handler of the task store changed the collection while initialize i
\* ran, and the identity is still signed in
RanUndisturbed(i) == ~procs[i].edited /\ user # NoUser

\* C7 (as stated): when initialization completes successfully and no local
\* mutation was made while it ran, the last-synced baseline is the signature
\* of the resulting local collection and, when a remote snapshot then exists,
\* also the signature of the remote collection. A push in flight beside the
\* initialization can write the remote between the initialization's read and
\* its comparison, and the baseline is then not the remote's signature.
C7_BaselineAfterInit ==
  [][\A i \in 1..MaxProcs :
       (InitCompletes(i) /\ RanUndisturbed(i))
       => /\ lastSyncedSignatureRef' = ToSignature(tasks')
          /\ remote'[procs[i].token].exists
               => lastSyncedSignatureRef' =
                    ToSignature(remote'[procs[i].token].tasks)]_vars

\* ------------------------------------------------------------ error status
\* A step in which an initialization fails: the token is denied to a waiting
\* initialize, or its remote read or write throws
InitFails ==
  \/ TokenDenied /\ \E i \in 1..Len(procs) : InitAt(i, "token")
  \/ \E i \in 1..MaxProcs :
       /\ i \in 1..Len(procs)
       /\ procs[i].kind = "init"
       /\ ~procs[i].cancelled
       /\ \/ \E atGet \in BOOLEAN : InitReadFail(i, atGet)
          \/ InitWriteFail(i)

\* A step of the task store that changes the collection
StoreMutation ==
  tasks' # tasks /\ Len(procs') = Len(procs) /\ UNCHANGED <<user, refVars>>

\* C8: a failure of token acquisition or of a remote read or write during
\* initialization sets the status to error and leaves the in-memory and the
\* persisted collections as they were, with the identity still signed in (the
\* handlers of the task store are guarded by nothing else); and every
\* task-store mutation made in the error status is persisted to the slot and
\* leaves the status alone.
C8_InitFailureKeepsLocal ==
  [][ /\ InitFails => /\ syncStatus' = "error"
                      /\ tasks' = tasks
                      /\ localStorage' = localStorage
                      /\ user' # NoUser
      /\ (syncStatus = "error" /\ user # NoUser /\ StoreMutation)
           => /\ Slot(user)' = [exists |-> TRUE, tasks |-> tasks']
              /\ syncStatus' = "error" ]_vars

\* C8 witness: the initialization has failed (error, never initialized) and
\* the store holds a completed task that is persisted
C8_Witness ==
  /\ user = "a"
  /\ syncStatus = "error"
  /\ ~syncInitializedRef
  /\ procs = << >>
  /\ Len(tasks) = 1
  /\ tasks[1].completed
  /\ Slot("a").tasks = tasks

\* C9 (as stated): in the error status, a task-store mutation that makes the
\* signature differ from the last-synced baseline arms the debounce timer of
\* a new push. After a failed initialization the initialized flag is false
\* and the push effect returns before arming it.
C9_ErrorIsNotTerminal ==
  [][ ( /\ syncStatus = "error"
        /\ user # NoUser
        /\ StoreMutation
        /\ ToSignature(tasks') # lastSyncedSignatureRef' )
      => syncTimerRef'.pending ]_vars

\* ------------------------------------------------------------- one push
PushesInFlight == {i \in 1..Len(procs) : procs[i].kind = "push"}

\* C10: at most one push is in flight, and a call of pushTasksToCloud made
\* while one is in flight starts no call, requests no token and writes nothing
\* to the remote.
C10_OnePushInFlight ==
  [][ /\ Cardinality(PushesInFlight') <= 1
      /\ syncingRef' <=> (PushesInFlight' # {})
      /\ \A t \in Clock :
           (syncingRef /\ TimerFires(t))
           => /\ procs' = procs
              /\ tokenRequestRef' = tokenRequestRef
              /\ remote' = remote
              /\ syncingRef' ]_vars

\* C10 witness: a push is in flight, the store has changed since it started,
\* and the timer armed for the newer collection has fired and was dropped
C10_Witness ==
  /\ user = "a"
  /\ syncingRef
  /\ ~syncTimerRef.pending
  /\ ToSignature(tasks) # lastSyncedSignatureRef
  /\ \E i \in 1..Len(procs) :
       /\ procs[i].kind = "push"
       /\ ToSignature(procs[i].payload) # ToSignature(tasks)

\* ------------------------------------------------------------------
\* toSignature as a pure function. The inputs are drawn from the task lists
\* with distinct ids of up to MaxSigTasks tasks; the persisted slot of "a"
\* keeps the list first drawn and lastSyncedSignatureRef its signature, while
\* the store is permuted, or differs from it in one field of one task, or
\* lacks one task.
MaxSigTasks == 3

SigTask(id, q, o) ==
  [id |-> id, title |-> <<"a">>, quadrant |-> q, completed |-> FALSE,
   order |-> o, updatedAt |-> 1]

SigTasks == {SigTask(id, q, o) : id \in 1..MaxSigTasks, q \in {"UI", "NI"},
                                  o \in 0..1}

SigLists ==
  {s \in UNION {[1..n -> SigTasks] : n \in 0..MaxSigTasks} :
     \A i, j \in 1..Len(s) : i # j => s[i].id # s[j].id}

SigInit ==
  /\ tasks \in SigLists
  /\ user = "a"
  /\ localStorage = [k \in Identities |->
                       IF k = "a" THEN [exists |-> TRUE, tasks |-> tasks] ELSE NoFile]
  /\ lastSyncedSignatureRef = ToSignature(tasks)
  /\ now = 1
  /\ nextId = MaxSigTasks + 1
  /\ googleReady = FALSE
  /\ accessToken = None
  /\ tokenExpiry = 0
  /\ tokenRequestRef = NoRequest
  /\ syncTimerRef = NoTimer
  /\ fileIdRef = None
  /\ syncingRef = FALSE
  /\ syncInitializedRef = FALSE
  /\ syncStatus = "idle"
  /\ remote = [k \in Identities |-> NoFile]
  /\ procs = << >>
  /\ signIns = 0

SameTasks(a, b) ==
  {a[i] : i \in 1..Len(a)} = {b[i] : i \in 1..Len(b)}

\* the tasks that differ from x in exactly one of the five fields beside id
OneFieldEdits(x) ==
  {[x EXCEPT !.title = <<"a", "a">>],
   [x EXCEPT !.quadrant = IF x.quadrant = "UI" THEN "NI" ELSE "UI"],
   [x EXCEPT !.completed = ~x.completed],
   [x EXCEPT !.order = 1 - x.order],
   [x EXCEPT !.updatedAt = x.updatedAt + 1]}

\* the array order changes: two neighbours are exchanged
SigPermute(i) ==
  /\ i \in 1..(Len(tasks) - 1)
  /\ tasks' = [tasks EXCEPT ![i] = tasks[i + 1], ![i + 1] = tasks[i]]
  /\ UNCHANGED <<user, localStorage, now, nextId, googleReady, tokenVars,
                 syncTimerRef, syncVars>>

\* one field of one task changes
SigEdit(i, x) ==
  /\ i \in 1..Len(tasks)
  /\ SameTasks(tasks, localStorage["a"].tasks)
  /\ x \in OneFieldEdits(tasks[i])
  /\ tasks' = [tasks EXCEPT ![i] = x]
  /\ UNCHANGED <<user, localStorage, now, nextId, googleReady, tokenVars,
                 syncTimerRef, syncVars>>

\* one task is missing
SigDrop(i) ==
  /\ i \in 1..Len(tasks)
  /\ SameTasks(tasks, localStorage["a"].tasks)
  /\ tasks' = RemoveAt(tasks, i - 1)
  /\ UNCHANGED <<user, localStorage, now, nextId, googleReady, tokenVars,
                 syncTimerRef, syncVars>>

SigNext ==
  \/ \E i \in 1..MaxSigTasks : SigPermute(i)
  \/ \E i \in 1..MaxSigTasks :
       \E x \in OneFieldEdits(IF i <= Len(tasks) THEN tasks[i] ELSE SigTask(i, "UI", 0)) :
         SigEdit(i, x)
  \/ \E i \in 1..MaxSigTasks : SigDrop(i)

SpecSignature == SigInit /\ [][SigNext]_vars

\* C20: toSignature does not depend on the array order, and two lists of
\* tasks with distinct ids have equal signatures exactly when they hold the
\* same tasks with the same id, title, quadrant, completed, order and
\* updatedAt: the store's signature equals the signature of the list first
\* drawn iff the two hold the same set of task records.
C20_SignatureIsOrderIndependent ==
  (ToSignature(tasks) = lastSyncedSignatureRef)
    <=> SameTasks(tasks, localStorage["a"].tasks)

\* three tasks in another array order than first drawn, two of them tied on
\* quadrant and order, with equal signatures
C20_Witness ==
  /\ Len(tasks) = MaxSigTasks
  /\ tasks # localStorage["a"].tasks
  /\ SameTasks(tasks, localStorage["a"].tasks)
  /\ tasks[1].id > tasks[2].id
  /\ tasks[1].quadrant = tasks[2].quadrant
  /\ tasks[1].order = tasks[2].order
  /\ ToSignature(tasks) = lastSyncedSignatureRef

\* ------------------------------------------------------------------
\* The system while the token and the remote calls succeed and the identity
\* stays signed in. Every handler that reads the clock reads a later value
\* than the last one, which bounds the edits of a run. The timer fires, the
\* provider and the remote answer: weak fairness on each of these steps.
LiveNext ==
  \/ \E title \in Titles, q \in SyncQuadrants, t \in Clock :
       nextId <= MaxSyncTasks /\ AddTask(title, q, t)
  \/ \E id \in 1..MaxSyncTasks, t \in Clock : t > now /\ ToggleTask(id, t)
  \/ \E id \in 1..MaxSyncTasks : DeleteTask(id)
  \/ ClearCompleted
  \/ \E id \in 1..MaxSyncTasks, over \in SyncOverTargets, t \in Clock :
       t > now /\ HandleDragEnd(id, over, t)
  \/ GoogleLoaded
  \/ \E tok \in Identities, expiresIn \in ExpiresIn, t \in Clock :
       TokenGranted(tok, expiresIn, t)
  \/ \E i \in 1..MaxProcs : InitReadServed(i)
  \/ \E i \in 1..MaxProcs : InitReadDone(i)
  \/ \E i \in 1..MaxProcs : InitWriteDone(i)
  \/ \E t \in Clock : TimerFires(t)
  \/ \E i \in 1..MaxProcs : PushWriteDone(i)

LiveFairness ==
  /\ WF_vars(GoogleLoaded)
  /\ WF_vars(\E tok \in Identities, expiresIn \in ExpiresIn, t \in Clock :
       TokenGranted(tok, expiresIn, t))
  /\ WF_vars(\E i \in 1..MaxProcs : InitReadServed(i))
  /\ WF_vars(\E i \in 1..MaxProcs : InitReadDone(i))
  /\ WF_vars(\E i \in 1..MaxProcs : InitWriteDone(i))
  /\ WF_vars(\E t \in Clock : TimerFires(t))
  /\ WF_vars(\E i \in 1..MaxProcs : PushWriteDone(i))

SpecLive == Init /\ [][LiveNext]_vars /\ LiveFairness

\* A push is in flight (its status is still the one it set), the store has
\* changed since it started and differs from the baseline, and no timer is
\* pending: the timer of the newer collection has fired into the reentrancy
\* guard (378). Only a firing of the timer leads into such a state.
DeltaDropped ==
  /\ user # NoUser
  /\ syncInitializedRef
  /\ syncingRef
  /\ syncStatus = "syncing"
  /\ ~syncTimerRef.pending
  /\ \E i \in 1..Len(procs) :
       /\ procs[i].kind = "push" /\ procs[i].pc = "write"
       /\ ToSignature(tasks) # ToSignature(procs[i].payload)
  /\ ToSignature(tasks) # lastSyncedSignatureRef

Converged ==
  /\ user # NoUser
  /\ remote[user].exists
  /\ ToSignature(remote[user].tasks) = ToSignature(tasks)

DebounceSchedules ==
  (StoreMutation /\ syncInitializedRef) =>
     IF ToSignature(tasks') # lastSyncedSignatureRef
     THEN syncTimerRef' = [pending |-> TRUE, tasks |-> tasks']
     ELSE syncTimerRef' = NoTimer

\* the step starts exactly one push, carrying the given collection
StartsPushOf(list) ==
  /\ Len(procs') = Len(procs) + 1
  /\ SubSeq(procs', 1, Len(procs)) = procs
  /\ procs'[Len(procs')].kind = "push"
  /\ procs'[Len(procs')].payload = list

\* C12: after initialization a store change whose signature differs from the
\* baseline schedules a push, every further change replaces the pending
\* timer, a change back to the baseline schedules none, and the firing of
\* the timer of a burst of edits produces exactly one remote write.
C12_DebounceCoalesces ==
  [][/\ DebounceSchedules
     /\ (\E t \in Clock : TimerFires(t)) => StartsPushOf(syncTimerRef.tasks)]_vars

\* ------------------------------------------------------------------
\* C13: when the debounce timer fires, the collection handed to the push,
\* which is the collection the push writes to the remote, is the store's
\* collection at that moment, every edit of the debounce window included.
C13_PushWritesLatest ==
  [][/\ (\E t \in Clock : TimerFires(t)) =>
          /\ syncTimerRef.tasks = tasks
          /\ procs' # procs => StartsPushOf(tasks)
     /\ \A i \in 1..Len(procs) :
          PushWriteDone(i) =>
            /\ remote'[procs[i].token].tasks = NormalizeTasks(procs[i].payload)
            /\ \A k \in Identities \ {procs[i].token} : remote'[k] = remote[k]]_vars

\* a push in flight carries the store's collection, in which task 1 was
\* added and then completed before anything of it was synced
C13_Witness ==
  /\ syncInitializedRef
  /\ \E i \in 1..Len(procs) :
       /\ procs[i].kind = "push"
       /\ procs[i].payload = tasks
       /\ \E j \in 1..Len(tasks) : tasks[j].id = 1 /\ tasks[j].completed
  /\ \A j \in 1..Len(lastSyncedSignatureRef) : lastSyncedSignatureRef[j].id # 1

\* ------------------------------------------------------------------
\* The collection the call p carries is already synced: it is the store's
\* collection, the baseline is its signature and the remote file holds it
AlreadySynced(p) ==
  /\ ToSignature(tasks) = ToSignature(p.payload)
  /\ lastSyncedSignatureRef = ToSignature(p.payload)
  /\ remote[p.token].exists
  /\ ToSignature(remote[p.token].tasks) = ToSignature(p.payload)

\* C14: push idempotence. Once a push of collection S has succeeded and the
\* store stays S, no further remote write of a push carries S.
C14_PushIdempotent ==
  [][\A i \in 1..Len(procs) :
       PushWriteDone(i) => ~AlreadySynced(procs[i])]_vars

\* ------------------------------------------------------------------
\* C16: signing out cancels the pending debounce timer. No timer is pending
\* once the identity is signed out, and no timer fires while it is.
C16_SignOutCancelsTimer ==
  [][/\ user' = NoUser => ~syncTimerRef'.pending
     /\ user = NoUser => ~(\E t \in Clock : TimerFires(t))]_vars

\* signed out with edits in the slot of "a" that the remote file lacks and
\* that no call in flight carries, and no timer pending
C16_Witness ==
  /\ user = NoUser
  /\ ~syncTimerRef.pending
  /\ procs = << >>
  /\ ~syncingRef
  /\ remote["a"].exists
  /\ localStorage["a"].tasks # << >>
  /\ ToSignature(localStorage["a"].tasks) # ToSignature(remote["a"].tasks)

\* ------------------------------------------------------------------
\* The step starts an initialize: a new call of that kind is in flight
StartsInitialize ==
  /\ Len(procs') = Len(procs) + 1
  /\ procs'[Len(procs')].kind = "init"
  /\ ~procs'[Len(procs')].cancelled

\* C18: the initialization protocol runs at most once per identity session.
\* Once the session's initialization has completed, no initialize is
\* started while the identity stays signed in, in particular not by a token
\* acquired or refreshed later.
C18_InitializesOnce ==
  [][(syncInitializedRef /\ user # NoUser /\ user' = user) => ~StartsInitialize]_vars

\* ------------------------------------------------------------------
\* The transitions of the sync status the claim lists. The code has no
\* status "initializing": initialize sets "syncing" (411). A later push or
\* initialize leaves "error" for "syncing", and sign-out resets to "idle".
StatusTransitions ==
  {<<"idle", "syncing">>, <<"syncing", "ready">>, <<"syncing", "error">>,
   <<"error", "ready">>, <<"error", "syncing">>, <<"ready", "syncing">>}
  \cup {<<st, "idle">> : st \in {"syncing", "ready", "error"}}

\* C19: the sync status changes only along idle -> syncing -> (ready |
\* error), ready <-> syncing on each push, error -> syncing or ready on a
\* retry and anything -> idle at sign-out; ready is entered only by a
\* successful initialization or a successful remote write.
C19_StatusTransitions ==
  [][/\ syncStatus' # syncStatus => <<syncStatus, syncStatus'>> \in StatusTransitions
     /\ (syncStatus' = "ready" /\ syncStatus # "ready") =>
          \E i \in 1..MaxProcs :
             InitReadDone(i) \/ InitWriteDone(i) \/ PushWriteDone(i)]_vars

\* ===================================================================
\* The per-task sync with the Google Tasks API (src/App.jsx)
\* ===================================================================
\* This variant of App keeps one task list in one storage slot (the model
\* uses the slot of "a"), has no sync status but the message tasksError
\* (syncStatus: "idle" for no message, "error" for a message), and caches the
\* remote list's id in tasklistId (fileIdRef). The remote list of an account
\* is remote[account].tasks; a deleted remote task stays there, marked.
MaxApiTasks == 2

NoRemoteId == 0

\* A sync call in flight. kind: "create", "update", "delete" or "clear" (task
\* then holds the list of the tasks to delete); pc: "token"
\* (ensureAccessToken's first request), "retry" (its second request),
\* "list" (ensureTasklistId) or "call" (the request for the task);
\* cached: tasklistId of the render the handler ran in
TasksApiCall(kind, pc, interactive, task, tok, cached) ==
  [kind |-> kind, pc |-> pc, interactive |-> interactive, task |-> task,
   token |-> tok, cached |-> cached]

\* ensureAccessToken's first prompt (208) and the prompt of its second
\* request, made when the first was rejected and the call is not
\* interactive (210-212)
EnsureAccessTokenFirstPrompt(interactive) == IF interactive THEN "consent" ELSE ""
EnsureAccessTokenRetryPrompt == "consent"

\* getTasksAccess up to its first suspension (257-267, 201-206): the calls
\* it leaves in flight, none when ensureAccessToken returns null at once
GetTasksAccess(kind, interactive, task, t) ==
  IF TokenIsValid(accessToken, tokenExpiry, t)
  THEN <<TasksApiCall(kind, IF fileIdRef = None THEN "list" ELSE "call",
                      interactive, task, accessToken, fileIdRef)>>
  ELSE IF ~googleReady THEN << >>
  ELSE <<TasksApiCall(kind, "token", interactive, task, None, fileIdRef)>>

GetTasksAccessRequest(req, interactive, t) ==
  IF TokenIsValid(accessToken, tokenExpiry, t) \/ ~googleReady THEN req
  ELSE RequestAccessToken(req, user, EnsureAccessTokenFirstPrompt(interactive))

\* syncCreateTask (275-299), syncUpdateTask (301-323) and syncDeleteTask
\* (325-338) up to their first suspension
SyncStart(kind, interactive, task, t) ==
  /\ procs' = procs \o GetTasksAccess(kind, interactive, task, t)
  /\ Len(procs') <= MaxProcs
  /\ tokenRequestRef' = GetTasksAccessRequest(tokenRequestRef, interactive, t)
  /\ now' = t

SyncCreateTask(task, t) == SyncStart("create", TRUE, task, t)

SyncUpdateTask(task, t) ==
  IF task.googleTaskId = NoRemoteId THEN SyncCreateTask(task, t)
  ELSE SyncStart("update", FALSE, task, t)

SyncDeleteTask(task, t) ==
  IF task.googleTaskId = NoRemoteId
  THEN UNCHANGED <<procs, tokenRequestRef, now>>
  ELSE SyncStart("delete", FALSE, task, t)

\* syncClearCompleted (340-360) up to its first suspension; the call in
\* flight carries the list of the tasks it was given
SyncClearCompleted(completedTasks, t) ==
  IF completedTasks = << >>
  THEN UNCHANGED <<procs, tokenRequestRef, now>>
  ELSE SyncStart("clear", FALSE, [list |-> completedTasks], t)

\* setTasks and the persist effect (77-79)
TasksApiSetTasks(newTasks) ==
  /\ tasks' = newTasks
  /\ localStorage' = [localStorage EXCEPT !["a"] = [exists |-> TRUE, tasks |-> newTasks]]

TasksApiGoogleLoaded ==
  /\ ~googleReady
  /\ googleReady' = TRUE
  /\ UNCHANGED <<storeVars, now, tokenVars, syncVars>>

\* addTask (370-388)
TasksApiAddTask(title, quadrant, t) ==
  /\ user # NoUser
  /\ IF Trim(title) = << >>
     THEN UNCHANGED vars
     ELSE LET newTask == [id |-> nextId, title |-> title, quadrant |-> quadrant,
                          completed |-> FALSE,
                          order |-> Len(InQuadrant(tasks, quadrant)),
                          googleTaskId |-> NoRemoteId]
          IN /\ nextId <= MaxApiTasks
             /\ nextId' = nextId + 1
             /\ TasksApiSetTasks(Append(tasks, newTask))
             /\ SyncCreateTask(newTask, t)
             /\ UNCHANGED <<user, googleReady, accessToken, tokenExpiry,
                            syncTimerRef, refVars>>

\* toggleTask (390-402)
TasksApiToggleTask(id, t) ==
  /\ user # NoUser
  /\ TasksApiSetTasks([i \in 1..Len(tasks) |->
        IF tasks[i].id = id THEN [tasks[i] EXCEPT !.completed = ~tasks[i].completed]
        ELSE tasks[i]])
  /\ IF HasId(tasks, id)
     THEN LET old == tasks[FindIndexById(tasks, id) + 1]
          IN SyncUpdateTask([old EXCEPT !.completed = ~old.completed], t)
     ELSE UNCHANGED <<procs, tokenRequestRef, now>>
  /\ UNCHANGED <<user, nextId, googleReady, accessToken, tokenExpiry,
                 syncTimerRef, refVars>>

\* deleteTask (404-410)
TasksApiDeleteTask(id, t) ==
  /\ user # NoUser
  /\ TasksApiSetTasks(SelectSeq(tasks, LAMBDA x : x.id # id))
  /\ IF HasId(tasks, id)
     THEN SyncDeleteTask(tasks[FindIndexById(tasks, id) + 1], t)
     ELSE UNCHANGED <<procs, tokenRequestRef, now>>
  /\ UNCHANGED <<user, nextId, googleReady, accessToken, tokenExpiry,
                 syncTimerRef, refVars>>

\* Mutant of TasksApiClearCompleted: the list handed to syncClearCompleted
\* is the whole store
TasksApiClearCompletedAll(t) ==
  /\ user # NoUser
  /\ TasksApiSetTasks(SelectSeq(tasks, LAMBDA x : ~x.completed))
  /\ SyncClearCompleted(tasks, t)
  /\ UNCHANGED <<user, nextId, googleReady, accessToken, tokenExpiry,
                 syncTimerRef, refVars>>

\* clearCompleted (412-416)
TasksApiClearCompleted(t) ==
  /\ user # NoUser
  /\ LET completed == SelectSeq(tasks, LAMBDA x : x.completed)
     IN /\ TasksApiSetTasks(SelectSeq(tasks, LAMBDA x : ~x.completed))
        /\ SyncClearCompleted(completed, t)
  /\ UNCHANGED <<user, nextId, googleReady, accessToken, tokenExpiry,
                 syncTimerRef, refVars>>

\* The token client's callback with an access token (131-139): the waiters
\* go on to ensureTasklistId
TasksApiTokenGranted(expiresIn, t) ==
  /\ tokenRequestRef.pending
  /\ accessToken' = tokenRequestRef.account
  /\ tokenExpiry' = t + expiresIn
  /\ now' = t
  /\ tokenRequestRef' = NoRequest
  /\ syncStatus' = "idle"
  /\ procs' = [i \in 1..Len(procs) |->
                 IF procs[i].pc \in {"token", "retry"}
                 THEN [procs[i] EXCEPT
                         !.pc = IF procs[i].cached = None THEN "list" ELSE "call",
                         !.token = tokenRequestRef.account]
                 ELSE procs[i]]
  /\ UNCHANGED <<storeVars, googleReady, fileIdRef, syncingRef, syncInitializedRef,
                 lastSyncedSignatureRef, remote, signIns>>

\* The callback with an error (123-129): the request is rejected. A call
\* that is not interactive and was waiting for its first request makes a
\* second request (210-212); every other waiter gets null and returns.
TasksApiTokenDenied ==
  /\ tokenRequestRef.pending
  /\ syncStatus' = "error"
  /\ LET retries(p) == p.pc = "token" /\ ~p.interactive
         kept == SelectSeq(procs, LAMBDA p : p.pc \notin {"token", "retry"}
                                              \/ retries(p))
     IN /\ procs' = [i \in 1..Len(kept) |->
                       IF kept[i].pc = "token" THEN [kept[i] EXCEPT !.pc = "retry"]
                       ELSE kept[i]]
        /\ tokenRequestRef' =
             IF \E i \in 1..Len(procs) : retries(procs[i])
             THEN RequestAccessToken(NoRequest, user, EnsureAccessTokenRetryPrompt)
             ELSE NoRequest
  /\ UNCHANGED <<storeVars, now, googleReady, accessToken, tokenExpiry, fileIdRef,
                 syncingRef, syncInitializedRef, lastSyncedSignatureRef, remote,
                 signIns>>

\* ensureTasklistId (237-255) finds or creates the list and caches its id
TasksApiListDone(i) ==
  /\ i \in 1..Len(procs)
  /\ procs[i].pc = "list"
  /\ fileIdRef' = procs[i].token
  /\ remote' = [remote EXCEPT ![procs[i].token].exists = TRUE]
  /\ procs' = [procs EXCEPT ![i].pc = "call"]
  /\ UNCHANGED <<storeVars, now, googleReady, tokenVars, syncingRef,
                 syncInitializedRef, lastSyncedSignatureRef, syncStatus, signIns>>

\* ensureTasklistId throws: getTasksAccess returns null (263-265)
TasksApiListFail(i) ==
  /\ i \in 1..Len(procs)
  /\ procs[i].pc = "list"
  /\ procs' = RemoveProc(procs, i)
  /\ UNCHANGED <<storeVars, now, googleReady, tokenVars, refVars>>

\* buildTaskPayload (269-273) as the remote stores it under id gid
BuildTaskPayload(task, gid) ==
  [id |-> gid, title |-> task.title, completed |-> task.completed,
   quadrant |-> task.quadrant, deleted |-> FALSE]

\* The remote ids of the tasks a call is about
RemoteIdsOf(p) ==
  IF p.kind = "clear" THEN {p.task.list[j].googleTaskId : j \in 1..Len(p.task.list)}
  ELSE {p.task.googleTaskId}

\* The request for the task succeeds: POST (278-293), PUT (311-319) or
\* DELETE (329-334), or every DELETE of syncClearCompleted (344-355)
TasksApiCallDone(i) ==
  /\ i \in 1..Len(procs)
  /\ procs[i].pc = "call"
  /\ LET p == procs[i]
         list == remote[p.token].tasks
         gid == IF p.kind = "create" THEN Len(list) + 1 ELSE p.task.googleTaskId
     IN /\ remote' = [remote EXCEPT ![p.token].tasks =
             IF p.kind = "create" THEN Append(list, BuildTaskPayload(p.task, gid))
             ELSE [j \in 1..Len(list) |->
                     IF list[j].id \notin RemoteIdsOf(p) THEN list[j]
                     ELSE IF p.kind \in {"delete", "clear"}
                          THEN [list[j] EXCEPT !.deleted = TRUE]
                     ELSE BuildTaskPayload(p.task, gid)]]
        /\ IF p.kind = "create"
           THEN TasksApiSetTasks([j \in 1..Len(tasks) |->
                   IF tasks[j].id = p.task.id
                   THEN [tasks[j] EXCEPT !.googleTaskId = gid] ELSE tasks[j]])
           ELSE UNCHANGED <<tasks, localStorage>>
  /\ syncStatus' = "idle"
  /\ procs' = RemoveProc(procs, i)
  /\ UNCHANGED <<user, nextId, syncTimerRef, now, googleReady, tokenVars, fileIdRef,
                 syncingRef, syncInitializedRef, lastSyncedSignatureRef, signIns>>

\* Mutant of TasksApiCallFail: a create that failed still records the id
\* the request was expected to return
TasksApiCallFailOptimistic(i) ==
  /\ i \in 1..Len(procs)
  /\ procs[i].pc = "call"
  /\ syncStatus' = "error"
  /\ procs' = RemoveProc(procs, i)
  /\ IF procs[i].kind = "create"
     THEN TasksApiSetTasks([j \in 1..Len(tasks) |->
             IF tasks[j].id = procs[i].task.id
             THEN [tasks[j] EXCEPT !.googleTaskId = Len(remote[procs[i].token].tasks) + 1]
             ELSE tasks[j]])
     ELSE UNCHANGED <<tasks, localStorage>>
  /\ UNCHANGED <<user, nextId, syncTimerRef, now, googleReady, tokenVars, fileIdRef,
                 syncingRef, syncInitializedRef, lastSyncedSignatureRef, remote, signIns>>

\* The request fails: setTasksError (295-297, 320-322, 335-337)
TasksApiCallFail(i) ==
  /\ i \in 1..Len(procs)
  /\ procs[i].pc = "call"
  /\ syncStatus' = "error"
  /\ procs' = RemoveProc(procs, i)
  /\ UNCHANGED <<storeVars, now, googleReady, tokenVars, fileIdRef, syncingRef,
                 syncInitializedRef, lastSyncedSignatureRef, remote, signIns>>

TasksApiInit ==
  /\ BaseInit
  /\ remote = [k \in Identities |-> NoFile]

TasksApiNext ==
  \/ TasksApiGoogleLoaded
  \/ \E title \in Titles, q \in SyncQuadrants, t \in Clock : TasksApiAddTask(title, q, t)
  \/ \E id \in 1..MaxApiTasks, t \in Clock : TasksApiToggleTask(id, t)
  \/ \E id \in 1..MaxApiTasks, t \in Clock : TasksApiDeleteTask(id, t)
  \/ \E t \in Clock : TasksApiClearCompleted(t)
  \/ \E expiresIn \in ExpiresIn, t \in Clock : TasksApiTokenGranted(expiresIn, t)
  \/ TasksApiTokenDenied
  \/ \E i \in 1..MaxProcs : TasksApiListDone(i)
  \/ \E i \in 1..MaxProcs : TasksApiListFail(i)
  \/ \E i \in 1..MaxProcs : TasksApiCallDone(i)
  \/ \E i \in 1..MaxProcs : TasksApiCallFail(i)

SpecTasksApi == TasksApiInit /\ [][TasksApiNext]_vars

\* ------------------------------------------------------------------
\* A token request that makes the provider prompt the user is pending
PromptingRequest == tokenRequestRef.pending /\ tokenRequestRef.prompt = "consent"

\* C17: background (non-interactive) token acquisition never issues a
\* prompting request to the identity provider: a prompting request is
\* pending only while an interactive call waits for it.
C17_BackgroundTokenIsSilent ==
  PromptingRequest =>
    \E i \in 1..Len(procs) :
       procs[i].pc \in {"token", "retry"} /\ procs[i].interactive

\* ------------------------------------------------------------------
\* The system with a change of identity: the restored identity signs out
\* and an identity signs in. The handlers are cut down to addTask and the
\* remote calls succeed.
IdentityNext ==
  \/ \E title \in Titles, q \in SyncQuadrants, t \in Clock :
       nextId <= MaxSyncTasks /\ AddTask(title, q, t)
  \/ GoogleLoaded
  \/ SignOut
  \/ \E email \in Identities, t \in Clock : SignIn(email, t)
  \/ \E tok \in Identities, expiresIn \in ExpiresIn, t \in Clock :
       TokenGranted(tok, expiresIn, t)
  \/ \E i \in 1..(MaxProcs + MaxSignIns) : InitReadServed(i)
  \/ \E i \in 1..(MaxProcs + MaxSignIns) : InitReadDone(i)
  \/ \E i \in 1..(MaxProcs + MaxSignIns) : InitWriteDone(i)
  \/ \E t \in Clock : TimerFires(t)
  \/ \E i \in 1..(MaxProcs + MaxSignIns) : PushWriteDone(i)

SpecIdentity == Init /\ [][IdentityNext]_vars

\* C15: a push or an initialization started for one identity and still in
\* flight when that identity has signed out and another has signed in never
\* writes its collection into the remote namespace of the new identity.
C15_NoWriteAcrossIdentities ==
  [][\A i \in 1..Len(procs) :
       (PushWriteDone(i) \/ InitWriteDone(i)) =>
          ~(user # NoUser /\ procs[i].email # user /\ procs[i].token = user)]_vars

\* ------------------------------------------------------------------
\* The handlers of the task store (506-605), checked on the store without
\* the cloud
BlankTitles == {title \in Titles : Trim(title) = << >>}

\* C21: addTask with a title that is blank after trimming is a silent no-op:
\* such a call (of either variant of the component) changes nothing, and no
\* task of the store has a blank title.
C21_BlankTitleIsNoOp ==
  [][/\ \A title \in BlankTitles, q \in Quadrants, t \in Clock :
          (AddTask(title, q, t) \/ TasksApiAddTask(title, q, t)) => UNCHANGED vars
     /\ \A i \in 1..Len(tasks') : Trim(tasks'[i].title) # << >>]_vars

\* addTask has created tasks, every id handed out is in the store
C21_Witness ==
  /\ Len(tasks) = MaxTasks
  /\ nextId = MaxTasks + 1
  /\ \A i \in 1..Len(tasks) : Trim(tasks[i].title) # << >>

\* The ids of a task list
IdsOf(arr) == {arr[i].id : i \in 1..Len(arr)}

\* C22: addTask with a non-blank title appends exactly one task, with
\* completed = false, the requested quadrant, the clock value just read as
\* updatedAt and order = the number of tasks already in that quadrant, and
\* leaves every existing task as it was.
C22_AddTaskAppendsOne ==
  [][\A title \in Titles \ BlankTitles, q \in Quadrants, t \in Clock :
       AddTask(title, q, t) =>
         /\ Len(tasks') = Len(tasks) + 1
         /\ SubSeq(tasks', 1, Len(tasks)) = tasks
         /\ LET new == tasks'[Len(tasks')]
            IN /\ new.id \notin IdsOf(tasks)
               /\ new.title = title
               /\ new.quadrant = q
               /\ new.completed = FALSE
               /\ new.updatedAt = t /\ t >= now /\ now' = t
               /\ new.order = Cardinality({i \in 1..Len(tasks) :
                                              tasks[i].quadrant = q})]_vars

\* addTask has created the second task of one quadrant (order 1) and the
\* first of another (order 0)
C22_Witness ==
  /\ Len(tasks) = 3
  /\ \A i \in 1..3 : tasks[i].id = i /\ ~tasks[i].completed
  /\ tasks[1].quadrant = "UI" /\ tasks[1].order = 0
  /\ tasks[2].quadrant = "UI" /\ tasks[2].order = 1
  /\ tasks[3].quadrant = "NN" /\ tasks[3].order = 0

\* C23: toggleTask(id) flips completed on the task with that id and sets its
\* updatedAt to the clock value just read; its id, title, quadrant and order
\* and every other task are unchanged, and for an id that is not in the store
\* the contents of the store are unchanged.
C23_ToggleFlipsOne ==
  [][\A id \in 1..MaxTasks, t \in Clock :
       ToggleTask(id, t) =>
         /\ Len(tasks') = Len(tasks)
         /\ t >= now
         /\ \A i \in 1..Len(tasks) :
              IF tasks[i].id = id
              THEN tasks'[i] = [id |-> tasks[i].id, title |-> tasks[i].title,
                                quadrant |-> tasks[i].quadrant,
                                order |-> tasks[i].order,
                                completed |-> ~tasks[i].completed,
                                updatedAt |-> t]
              ELSE tasks'[i] = tasks[i]]_vars

\* toggleTask has completed one task of two at a later clock value
C23_Witness ==
  /\ Len(tasks) = 2
  /\ tasks[1].completed /\ tasks[1].updatedAt = MaxClock
  /\ ~tasks[2].completed /\ tasks[2].updatedAt < MaxClock

\* C24: deleteTask(id) removes exactly the task with that id; every task that
\* remains is unchanged, the order values of its quadrant siblings included
\* (no renumbering).
C24_DeleteRemovesOne ==
  [][\A id \in 1..MaxTasks :
       DeleteTask(id) =>
         LET k == FindIndexById(tasks, id) + 1
         IN IF k = 0 THEN tasks' = tasks
            ELSE /\ Len(tasks') = Len(tasks) - 1
                 /\ id \notin IdsOf(tasks')
                 /\ \A i \in 1..Len(tasks') :
                      tasks'[i] = IF i < k THEN tasks[i] ELSE tasks[i + 1]]_vars

\* deleteTask has removed the first task of a quadrant: its sibling keeps
\* order 1
C24_Witness ==
  /\ nextId = 3
  /\ Len(tasks) = 1
  /\ tasks[1].id = 2 /\ tasks[1].order = 1

\* The sync calls a step has started
StartedCalls == SubSeq(procs', Len(procs) + 1, Len(procs'))

QuadrantSequence(arr, q) == SortByOrder(InQuadrant(arr, q))

\* seq with the element at position from (1-based) taken out and put back
\* at position to
MovedSequence(seq, from, to) ==
  [k \in 1..Len(seq) |->
     IF k = to THEN seq[from]
     ELSE IF from < to /\ from <= k /\ k < to THEN seq[k + 1]
     ELSE IF to < from /\ to < k /\ k <= from THEN seq[k - 1]
     ELSE seq[k]]

\* A drop of task activeId on the task x of its own quadrant (a drop neither
\* hands out an id nor changes the number of tasks)
DropOnSibling(activeId, x, t) ==
  /\ nextId' = nextId /\ Len(tasks') = Len(tasks)
  /\ HasId(tasks, activeId)
  /\ x.quadrant = tasks[FindIndexById(tasks, activeId) + 1].quadrant
  /\ HandleDragEnd(activeId, OverTask(x), t)

\* C26: a within-quadrant reorder with valid indices from # to takes the item
\* at from out of the quadrant's order-sorted sequence, puts it back at to
\* and gives every item of the resulting sequence its 0-based position as
\* order; with from = to nothing changes. (The clock value the handler reads
\* is the value of the clock after the step.)
C26_ReorderMovesAndRenumbers ==
  [][\A activeId \in 1..MaxTasks, j \in 1..Len(tasks) :
       DropOnSibling(activeId, tasks[j], now') =>
         LET q == tasks[j].quadrant
             before == QuadrantSequence(tasks, q)
             after == QuadrantSequence(tasks', q)
             from == FindIndexById(before, activeId) + 1
             to == FindIndexById(before, tasks[j].id) + 1
             expected == MovedSequence(before, from, to)
         IN IF from = to THEN UNCHANGED vars
            ELSE /\ Len(after) = Len(before)
                 /\ \A k \in 1..Len(after) :
                      /\ after[k].order = k - 1
                      /\ after[k].id = expected[k].id
                      /\ after[k].title = expected[k].title
                      /\ after[k].completed = expected[k].completed]_vars

\* [A, B, C] with A moved from 0 to 2: B(0), C(1), A(2)
C26_Witness ==
  /\ Len(tasks) = 3
  /\ \A i \in 1..3 : tasks[i].quadrant = "UI"
  /\ \E a, b, c \in 1..3 :
       /\ tasks[a].id = 1 /\ tasks[a].order = 2
       /\ tasks[b].id = 2 /\ tasks[b].order = 0
       /\ tasks[c].id = 3 /\ tasks[c].order = 1
  /\ \A i \in 1..3 : tasks[i].updatedAt = MaxClock

\* The targets of a drop that lie in quadrant q: its tasks and its container
TargetsIn(q) ==
  {OverTask(tasks[i]) : i \in {j \in 1..Len(tasks) : tasks[j].quadrant = q}}
    \cup {OverContainer(q)}

\* The ids of a task list, with the number of times each occurs
IdBag(arr) ==
  [id \in IdsOf(arr) |-> Cardinality({i \in 1..Len(arr) : arr[i].id = id})]

\* C27: a within-quadrant reorder is a permutation: the multiset of the task
\* ids of that quadrant is the same before and after it, and the tasks of
\* every other quadrant are unchanged. (The clock value the handler reads is
\* the value of the clock after the step.)
C27_ReorderIsPermutation ==
  [][\A activeId \in IdsOf(tasks) :
       LET q == tasks[FindIndexById(tasks, activeId) + 1].quadrant
       IN \A over \in TargetsIn(q) :
            (nextId' = nextId /\ HandleDragEnd(activeId, over, now')) =>
               /\ IdBag(InQuadrant(tasks', q)) = IdBag(InQuadrant(tasks, q))
               /\ \A other \in Quadrants \ {q} :
                    InQuadrant(tasks', other) = InQuadrant(tasks, other)]_vars

\* A reorder has exchanged the two tasks of one quadrant while another
\* quadrant holds a task
C27_Witness ==
  /\ Len(tasks) = 3
  /\ tasks[1].id = 3 /\ tasks[1].quadrant = "NN" /\ tasks[1].updatedAt < MaxClock
  /\ tasks[2].id = 2 /\ tasks[2].quadrant = "UI" /\ tasks[2].order = 0
  /\ tasks[3].id = 1 /\ tasks[3].quadrant = "UI" /\ tasks[3].order = 1
  /\ tasks[2].updatedAt = MaxClock /\ tasks[3].updatedAt = MaxClock

\* What Quadrant q is given to display (686): sortedTasks filtered by quadrant
DisplayedIn(arr, q) == InQuadrant(SortCanonical(arr), q)

\* arr without the task with the given id
Without(arr, id) == SelectSeq(arr, LAMBDA x : x.id # id)

\* C28: a move of a task to another quadrant sets its quadrant to the target
\* and its order to the number of tasks already there, so that it is displayed
\* last in the target; the tasks left in the source are re-sequenced to
\* 0..n-1 in their relative order; the tasks already in the target and the
\* tasks of the other two quadrants are unchanged.
C28_MoveAppendsToTarget ==
  [][\A activeId \in IdsOf(tasks), target \in Quadrants, t \in Clock :
       LET active == tasks[FindIndexById(tasks, activeId) + 1]
           source == active.quadrant
       IN \A over \in TargetsIn(target) :
            (target # source /\ nextId' = nextId
               /\ HandleDragEnd(activeId, over, t)) =>
              LET moved == tasks'[FindIndexById(tasks', activeId) + 1]
                  shown == DisplayedIn(tasks', target)
                  left == QuadrantSequence(Without(tasks, activeId), source)
                  leftAfter == QuadrantSequence(tasks', source)
              IN /\ HasId(tasks', activeId)
                 /\ moved.quadrant = target
                 /\ moved.order = Len(InQuadrant(tasks, target))
                 /\ moved.title = active.title
                 /\ moved.completed = active.completed
                 /\ shown[Len(shown)].id = activeId
                 /\ Len(leftAfter) = Len(left)
                 /\ \A k \in 1..Len(left) :
                      /\ leftAfter[k].id = left[k].id
                      /\ leftAfter[k].order = k - 1
                 /\ InQuadrant(Without(tasks', activeId), target)
                      = QuadrantSequence(tasks, target)
                 /\ \A other \in Quadrants \ {source, target} :
                      InQuadrant(tasks', other) = InQuadrant(tasks, other)]_vars

\* C29: a drop that reports no over-target, or whose active id is not a task
\* of the store, is abandoned: nothing changes.
C29_AbandonedDropChangesNothing ==
  [][\A activeId \in 1..MaxTasks, t \in Clock :
       /\ HandleDragEnd(activeId, NoOver, t) => UNCHANGED vars
       /\ activeId \notin IdsOf(tasks) =>
            \A over \in OverTargets :
               HandleDragEnd(activeId, over, t) => UNCHANGED vars]_vars

\* A store in which either drop can be made: two tasks of one quadrant in
\* display order, and an id that is no longer in the store
C29_Witness ==
  /\ Len(tasks) = 2
  /\ tasks[1].quadrant = tasks[2].quadrant
  /\ tasks[1].order = 0 /\ tasks[2].order = 1
  /\ nextId = MaxTasks + 1

\* The task with the given id in a task list that holds it
TaskOf(arr, id) == arr[FindIndexById(arr, id) + 1]

\* C30: updatedAt is bumped on every mutation of a task. A create, a toggle,
\* a within-quadrant reorder (every task of the quadrant) and a cross-quadrant
\* move (the moved task and the tasks left in the source) set the updatedAt
\* of the tasks they affect to the clock value read (the value the clock has
\* after the step), and no step of the local handlers lowers the updatedAt of
\* a task. A handler that changes the store keeps the number of tasks and the
\* ids handed out unless it is addTask, deleteTask or clearCompleted, and a
\* drop puts the task into the quadrant of its target.
C30_UpdatedAtIsBumped ==
  [][/\ \A id \in IdsOf(tasks) \cap IdsOf(tasks') :
          TaskOf(tasks', id).updatedAt >= TaskOf(tasks, id).updatedAt
     /\ \A id \in IdsOf(tasks') \ IdsOf(tasks) :
          TaskOf(tasks', id).updatedAt = now' /\ now' >= now
     /\ (nextId' = nextId /\ Len(tasks') = Len(tasks) /\ tasks' # tasks) =>
          \A id \in IdsOf(tasks) :
             /\ ToggleTask(id, now') => TaskOf(tasks', id).updatedAt = now'
             /\ \A over \in TargetsIn(TaskOf(tasks', id).quadrant) :
                  (/\ ~(over.kind = "task" /\ over.id = id)
                   /\ HandleDragEnd(id, over, now')) =>
                     /\ TaskOf(tasks', id).updatedAt = now'
                     /\ \A i \in 1..Len(tasks') :
                          tasks'[i].quadrant = TaskOf(tasks, id).quadrant
                            => tasks'[i].updatedAt = now']_vars

\* A move at a later clock value has stamped the moved task and the sibling it
\* left behind; the task of a third quadrant keeps its stamp
C30_Witness ==
  /\ Len(tasks) = 3
  /\ tasks[1].id = 3 /\ tasks[1].updatedAt < MaxClock
  /\ tasks[2].id = 2 /\ tasks[2].order = 0 /\ tasks[2].updatedAt = MaxClock
  /\ tasks[3].id = 1 /\ tasks[3].order = 0 /\ tasks[3].updatedAt = MaxClock
  /\ Cardinality({tasks[i].quadrant : i \in 1..3}) = 3

\* ------------------------------------------------------------------
\* C31: while an identity is signed in, once a change of the store has been
\* processed the local slot of that identity holds exactly the in-memory
\* collection.
C31_SlotHoldsStore ==
  user # NoUser =>
    /\ localStorage[GetUserTasksStorageKey(user)].exists
    /\ localStorage[GetUserTasksStorageKey(user)].tasks = tasks

\* The slot holds a store that a handler has changed after the cloud's list
\* was adopted
C31_Witness ==
  /\ user # NoUser
  /\ syncInitializedRef
  /\ Len(tasks) = 2
  /\ \E i \in 1..2 : tasks[i].id = OtherDeviceId
  /\ \E i \in 1..2 : tasks[i].id # OtherDeviceId /\ tasks[i].completed
  /\ localStorage[GetUserTasksStorageKey(user)].tasks = tasks

\* The ids of the tasks in the slot of an identity. Under IdentityNext the
\* session starts with "a" and "b" signs in later, so the slot of "a" is
\* written only before "b" signs in: an id it shares with the store or the
\* slot of "b" is the id of a task of "a".
SlotIds(email) == IdsOf(localStorage[GetUserTasksStorageKey(email)].tasks)

\* C32: local data is isolated per identity. Sign-in as X loads the
\* normalized content of X's slot (empty if there is none); sign-out empties
\* the in-memory collection and leaves the slots alone; and no task of one
\* identity appears in the in-memory collection or the slot of another.
C32_LocalDataIsolated ==
  [][/\ \A email \in Identities, t \in Clock :
          SignIn(email, t) =>
            tasks' = NormalizeTasks(
                       IF localStorage[GetUserTasksStorageKey(email)].exists
                       THEN localStorage[GetUserTasksStorageKey(email)].tasks
                       ELSE << >>)
     /\ SignOut => (tasks' = << >> /\ localStorage' = localStorage)
     /\ user' = "b" =>
          /\ IdsOf(tasks') \cap SlotIds("a")' = {}
          /\ SlotIds("b")' \cap SlotIds("a")' = {}]_vars


\* ------------------------------------------------------------------ C33
\* Loading malformed data.  The durable slot of "a" and the remote file of
\* "a" start with a raw value each: nothing, text that does not parse, JSON
\* that is not an array, or an array of raw tasks, some of them lacking
\* fields, with an unknown quadrant or with a non-finite order or updatedAt.
MaxRawLen == 2

RawTasks ==
  {[id |-> 1, title |-> <<"a">>],
   [id |-> 1, title |-> <<"a">>, quadrant |-> "XX", completed |-> TRUE,
    order |-> NotFinite, updatedAt |-> NotFinite],
   [id |-> 2, title |-> <<"a">>, quadrant |-> "NI", completed |-> FALSE,
    order |-> 1, updatedAt |-> 1]}

RawArrays ==
  UNION {[1..n -> RawTasks] : n \in 0..MaxRawLen}

RawFiles ==
  {NoFile,
   [exists |-> TRUE, tasks |-> << >>, text |-> "unparseable"],
   [exists |-> TRUE, tasks |-> << >>, text |-> "object"]}
  \cup {[exists |-> TRUE, tasks |-> arr] : arr \in RawArrays}

LoadInit ==
  /\ user = NoUser
  /\ tasks = << >>
  /\ \E slot \in RawFiles :
       localStorage = [k \in Identities |-> IF k = "a" THEN slot ELSE NoFile]
  /\ \E file \in RawFiles :
       remote = [k \in Identities |-> IF k = "a" THEN file ELSE NoFile]
  /\ now = 1
  /\ nextId = 1
  /\ googleReady = FALSE
  /\ accessToken = None
  /\ tokenExpiry = 0
  /\ tokenRequestRef = NoRequest
  /\ syncTimerRef = NoTimer
  /\ fileIdRef = None
  /\ syncingRef = FALSE
  /\ syncInitializedRef = FALSE
  /\ lastSyncedSignatureRef = ToSignature(<< >>)
  /\ syncStatus = "idle"
  /\ procs = << >>
  /\ signIns = 0

LoadNext ==
  \/ GoogleLoaded
  \/ \E t \in Clock : SignIn("a", t)
  \/ \E expiresIn \in ExpiresIn, t \in Clock : TokenGranted("a", expiresIn, t)
  \/ \E i \in 1..MaxProcs : InitReadServed(i)
  \/ \E i \in 1..MaxProcs : InitReadDone(i)
  \/ \E i \in 1..MaxProcs, atGet \in BOOLEAN : InitReadFail(i, atGet)
  \/ \E i \in 1..MaxProcs : InitWriteDone(i)

SpecLoad == LoadInit /\ [][LoadNext]_vars

\* a task of the store: the six fields, a quadrant of the four, finite numbers
WellFormedTask(x) ==
  /\ DOMAIN x = {"id", "title", "quadrant", "completed", "order", "updatedAt"}
  /\ x.quadrant \in Quadrants
  /\ x.completed \in BOOLEAN
  /\ x.order \in Nat
  /\ x.updatedAt \in Nat

\* n is what the raw task at array index `index` is to become
DefaultsApplied(raw, index, n) ==
  /\ WellFormedTask(n)
  /\ n.quadrant = IF "quadrant" \in DOMAIN raw /\ raw.quadrant \in Quadrants
                  THEN raw.quadrant ELSE "UI"
  /\ n.completed = IF "completed" \in DOMAIN raw THEN raw.completed ELSE FALSE
  /\ n.order = IF "order" \in DOMAIN raw /\ raw.order # NotFinite
               THEN raw.order ELSE index
  /\ n.updatedAt = IF "updatedAt" \in DOMAIN raw /\ raw.updatedAt # NotFinite
                   THEN raw.updatedAt ELSE 0

\* list is what the raw file is to be read as
FileNormalized(file, list) ==
  IF file.exists /\ "text" \notin DOMAIN file
  THEN /\ Len(list) = Len(file.tasks)
       /\ \A i \in 1..Len(list) : DefaultsApplied(file.tasks[i], i - 1, list[i])
  ELSE list = << >>

\* C33: malformed persisted or remote data is normalized, not rejected.  A
\* sign-in loads the slot of the identity as the empty collection when the
\* stored value does not parse or is not an array, and otherwise task by
\* task with the defaults: quadrant UI for a missing or unknown quadrant,
\* completed false when missing, the array index for a non-finite order, 0
\* for a non-finite updatedAt.  A served remote read hands initialize a list
\* normalized in the same way, and after every step the store is a list of
\* well-formed tasks.
C33_MalformedIsNormalized ==
  [][/\ \A i \in 1..Len(tasks') : WellFormedTask(tasks'[i])
     /\ (user = NoUser /\ user' # NoUser) =>
          FileNormalized(localStorage[GetUserTasksStorageKey(user')], tasks')
     /\ \A i \in 1..Len(procs) :
          (/\ Len(procs') = Len(procs)
           /\ procs[i].kind = "init" /\ procs[i].pc = "read"
           /\ procs'[i].pc = "compare") =>
            /\ procs'[i].snapshot.exists = remote[procs[i].token].exists
            /\ FileNormalized(remote[procs[i].token], procs'[i].snapshot.tasks)
    ]_vars

\* Witness for C33: a slot that held two raw tasks, the first without
\* quadrant, completed, order and updatedAt, has been loaded; the remote file
\* was not an array, and the initialization has read it as the empty list
C33_Witness ==
  /\ user = "a"
  /\ \E i \in 1..Len(procs) :
       /\ procs[i].kind = "init" /\ procs[i].pc = "compare"
       /\ procs[i].snapshot = [exists |-> TRUE, tasks |-> << >>]
  /\ remote["a"].exists /\ "text" \in DOMAIN remote["a"]
  /\ Len(tasks) = 2
  /\ tasks[1] = [id |-> 1, title |-> <<"a">>, quadrant |-> "UI",
                 completed |-> FALSE, order |-> 0, updatedAt |-> 0]
  /\ tasks[2].quadrant = "UI" /\ tasks[2].order = 1 /\ tasks[2].completed

\* Witness for C33, the empty load: the slot's text did not parse and the
\* store holds the empty collection, which was saved over it
C33_WitnessUnparseable ==
  /\ user = "a"
  /\ tasks = << >>
  /\ syncStatus = "error"
  /\ localStorage["a"] = [exists |-> TRUE, tasks |-> << >>]
  /\ "text" \in DOMAIN remote["a"] /\ remote["a"].text = "unparseable"


\* ------------------------------------------------------------------ C34
\* the create call of the task with local id `id` that is awaiting the
\* answer to its POST
CreateInFlight(i, id) ==
  /\ procs[i].kind = "create" /\ procs[i].pc = "call"
  /\ procs[i].task.id = id

\* the step is the successful answer to call i: the remote list has one
\* more task, and gid is the id the remote gave it
CreateAnswered(i, gid) ==
  LET before == remote[procs[i].token].tasks
      after == remote'[procs[i].token].tasks
  IN /\ procs' = RemoveProc(procs, i)
     /\ Len(after) = Len(before) + 1
     /\ after[Len(after)].id = gid
     /\ after[Len(after)].title = procs[i].task.title

\* C34: a task has no remote reference until a remote create for it has
\* succeeded.  A task enters the store without googleTaskId; googleTaskId
\* changes only in the step in which a create request for that task is
\* answered successfully, and to the id of the remote task that answer
\* created; a step in which no create succeeds (a failed request, a failed
\* list lookup, a denied token) leaves every task as it was.
C34_RemoteRefOnlyFromCreate ==
  [][/\ \A j \in 1..Len(tasks') :
          LET x == tasks'[j]
          IN IF ~HasId(tasks, x.id) THEN x.googleTaskId = NoRemoteId
             ELSE x.googleTaskId # TaskOf(tasks, x.id).googleTaskId =>
                    /\ x = [TaskOf(tasks, x.id) EXCEPT !.googleTaskId = x.googleTaskId]
                    /\ \E i \in 1..Len(procs) :
                         CreateInFlight(i, x.id) /\ CreateAnswered(i, x.googleTaskId)
     /\ (Len(procs') < Len(procs) /\ remote' = remote) => tasks' = tasks
    ]_vars

\* Witness for C34: of two tasks, the create of the first has succeeded and
\* the task refers to the remote task made from it; the create of the second
\* has failed, and the second has no remote reference
C34_Witness ==
  /\ Len(tasks) = 2
  /\ tasks[1].googleTaskId # NoRemoteId
  /\ \E k \in 1..Len(remote["a"].tasks) :
       /\ remote["a"].tasks[k].id = tasks[1].googleTaskId
       /\ remote["a"].tasks[k].title = tasks[1].title
  /\ tasks[2].googleTaskId = NoRemoteId
  /\ procs = << >>
  /\ syncStatus = "error"


\* ------------------------------------------------------------------ C35
\* the ids the store has handed out in this session and no longer holds:
\* addTask is the only source of these ids, so the task was removed from the
\* store after it was created
RemovedIds == {id \in 1..(nextId - 1) : ~HasId(tasks, id)}

\* C35: a task that was deleted locally is not restored by a later
\* initialization against a remote snapshot that still holds it.  While the
\* same identity stays signed in, a task that has left the store does not
\* come back into it.
C35_DeletedStaysDeleted ==
  [][(user # NoUser /\ user' = user) =>
       \A id \in RemovedIds : ~HasId(tasks', id)]_vars


\* ------------------------------------------------------------------ C36
\* the calls of the signed-in identity whose writeRemoteTasks is awaiting
\* the remote, started by initialize or by pushTasksToCloud
WritesInFlight ==
  {i \in 1..Len(procs) : procs[i].pc = "write" /\ procs[i].email = user}

\* C36: at no time are two remote writes of the task file in flight for
\* the same session, whether issued by the initialization or by
\* pushTasksToCloud.
C36_OneRemoteWriteInFlight == Cardinality(WritesInFlight) <= 1


\* ------------------------------------------------------------------ C37
\* C37: while nobody is signed in the sync status is idle and the
\* initialized flag is false, also when an initialization or a push that
\* was started before the sign-out completes after it.
C37_SignedOutStaysIdle ==
  user = NoUser => (syncStatus = "idle" /\ ~syncInitializedRef)


\* ------------------------------------------------------------------ C38
\* The token client's callback with a response that carries neither `error`
\* nor `access_token` (199-217): neither branch runs, the promise of the
\* request stays unsettled and tokenRequestRef keeps it
TokenAnsweredEmpty ==
  /\ tokenRequestRef.pending
  /\ ~tokenRequestRef.answered
  /\ tokenRequestRef' = [tokenRequestRef EXCEPT !.answered = TRUE]
  /\ UNCHANGED <<signIns, storeVars, now, googleReady, accessToken, tokenExpiry,
                 syncTimerRef, syncVars>>

\* The provider answers a request once, with a token, an error or neither
ProviderAnswers ==
  /\ ~tokenRequestRef.answered
  /\ \/ \E tok \in Identities, expiresIn \in ExpiresIn, t \in Clock :
          TokenGranted(tok, expiresIn, t)
     \/ TokenDenied
     \/ TokenAnsweredEmpty

PushWriteAnswered == \E i \in 1..MaxProcs : PushWriteDone(i) \/ PushWriteFail(i)

AnswerNext ==
  \/ \E title \in Titles, q \in SyncQuadrants, t \in Clock :
       nextId <= MaxSyncTasks /\ AddTask(title, q, t)
  \/ GoogleLoaded
  \/ \E tok \in Identities, expiresIn \in ExpiresIn, t \in Clock :
       ~tokenRequestRef.answered /\ TokenGranted(tok, expiresIn, t)
  \/ ~tokenRequestRef.answered /\ TokenDenied
  \/ TokenAnsweredEmpty
  \/ \E i \in 1..MaxProcs : InitReadServed(i)
  \/ \E i \in 1..MaxProcs : InitReadDone(i)
  \/ \E i \in 1..MaxProcs : InitWriteDone(i)
  \/ \E t \in Clock : TimerFires(t)
  \/ \E i \in 1..MaxProcs : PushWriteDone(i)
  \/ \E i \in 1..MaxProcs : PushWriteFail(i)

\* The provider answers every request, the remote answers every call, a
\* timer that is armed fires
AnswerFairness ==
  /\ WF_vars(GoogleLoaded)
  /\ WF_vars(ProviderAnswers)
  /\ WF_vars(\E i \in 1..MaxProcs : InitReadServed(i))
  /\ WF_vars(\E i \in 1..MaxProcs : InitReadDone(i))
  /\ WF_vars(\E i \in 1..MaxProcs : InitWriteDone(i))
  /\ WF_vars(\E t \in Clock : TimerFires(t))
  /\ WF_vars(PushWriteAnswered)

SpecAnswer == Init /\ [][AnswerNext]_vars /\ AnswerFairness

\* C38: every push attempt terminates and releases the reentrancy guard,
\* whether the token acquisition and the remote write succeed or fail or
\* the provider answers with neither a token nor an error: whenever the busy
\* flag is set it is eventually cleared.
C38_PushReleasesGuard == syncingRef ~> ~syncingRef


\* ------------------------------------------------------------------ C39
\* A drop of task activeId on the container of its own quadrant: over.id is
\* the quadrant's id, which is the id of no task (a drop neither hands out
\* an id nor changes the number of tasks)
DropOnOwnContainer(activeId, t) ==
  /\ nextId' = nextId /\ Len(tasks') = Len(tasks)
  /\ HasId(tasks, activeId)
  /\ HandleDragEnd(activeId, OverContainer(TaskOf(tasks, activeId).quadrant), t)

\* C39: dropping a task on the container of its own quadrant moves it to the
\* last position of the quadrant and gives the tasks of the quadrant the
\* orders 0..n-1, the other tasks of the quadrant keeping their relative
\* order; no task is removed or added, and the tasks of the other quadrants
\* are unchanged. (The clock value the handler reads is the value of the
\* clock after the step.)
C39_DropOnOwnContainerMovesLast ==
  [][\A activeId \in 1..MaxTasks :
       DropOnOwnContainer(activeId, now') =>
         LET q == TaskOf(tasks, activeId).quadrant
             before == QuadrantSequence(tasks, q)
             after == QuadrantSequence(tasks', q)
             others == SelectSeq(before, LAMBDA x : x.id # activeId)
             n == Len(before)
         IN /\ IdBag(tasks') = IdBag(tasks)
            /\ Len(after) = n
            /\ after[n].id = activeId
            /\ \A k \in 1..n : after[k].order = k - 1
            /\ \A k \in 1..Len(others) :
                 /\ after[k].id = others[k].id
                 /\ after[k].title = others[k].title
                 /\ after[k].completed = others[k].completed
            /\ \A p \in Quadrants \ {q} :
                 InQuadrant(tasks', p) = InQuadrant(tasks, p)]_vars

\* Witness for C39: [A, B, C] with B dropped on the container: A(0), C(1),
\* B(2), the three stamped by the drop
C39_Witness ==
  /\ Len(tasks) = 3
  /\ \A i \in 1..3 : tasks[i].quadrant = "NI" /\ tasks[i].updatedAt = MaxClock
  /\ \E a, b, c \in 1..3 :
       /\ tasks[a].id = 1 /\ tasks[a].order = 0
       /\ tasks[b].id = 2 /\ tasks[b].order = 2
       /\ tasks[c].id = 3 /\ tasks[c].order = 1


\* ------------------------------------------------------------------ C40
\* the create calls in flight for the task with local id `id`
CreatesInFlight(id) ==
  {i \in 1..Len(procs) : procs[i].kind = "create" /\ procs[i].task.id = id}

\* the remote tasks created so far, over all accounts (a deleted remote
\* task stays in the list, marked)
RemoteCreated ==
  Len(remote["a"].tasks) + Len(remote["b"].tasks)

\* C40: in the per-task sync each local task gets at most one remote
\* counterpart: no two create requests for the same local task are in flight
\* together, and no more remote tasks have been created than local tasks.
C40_OneCreatePerTask ==
  /\ \A id \in 1..MaxApiTasks : Cardinality(CreatesInFlight(id)) <= 1
  /\ RemoteCreated <= nextId - 1

\* the second conjunct alone: two remote tasks exist for one local task
C40_OneCounterpartPerTask == RemoteCreated <= nextId - 1

=============================================================================
